---- MODULE Spec2Model ----
(***************************************************************************)
(* Model of the rhetmo speech-analysis edge function                       *)
(* (supabase-functions/clever-service.ts, rule-based pipeline):            *)
(* Punctuator -> Pass A (pause/duration blocks) -> Pass B (sentence split) *)
(* -> Tagger -> interleave of pause segments -> metrics -> three           *)
(* enrichment calls joined by Promise.all -> upload -> status update.      *)
(*                                                                         *)
(* A text is a sequence of one-character strings.  Times are integers in   *)
(* milliseconds.  A token id is the row's position in the fetched list.    *)
(***************************************************************************)
EXTENDS Integers, Sequences, FiniteSets, TLC

VARIABLES
    client,                  \* the recording client (useRecordingService): position and refs
    pc,                      \* position of the request handler
    tokens,                  \* rows fetched from the tokens table (ordered by start_ms)
    punctuatedTokens,        \* result of addPunctuationToTokens
    pauseBlocks,             \* Pass A: blocks of tokens
    pauses,                  \* Pass A: pause records
    contentSegmentsPerBlock, \* Pass B: per block, the list of token lists
    analyzedSegments,        \* Tagger output, one SegmentAnalysis per content segment
    allSegments,             \* speech segments with pause segments interleaved
    metrics,                 \* calculateMetrics output
    calls,                   \* the three enrichment promises: state, outcome, value
    joined,                  \* state of the Promise.all join
    analysis,                \* the AnalysisResult assembled after the join
    storage,                 \* the bucket object <conversationId>-analysis.json
    uploads,                 \* results of the upload requests issued by the run, in order
    convStatus,              \* row of the conversations table
    response                 \* HTTP response of the run

pipelineVars == <<punctuatedTokens, pauseBlocks, pauses, contentSegmentsPerBlock,
                  analyzedSegments, allSegments, metrics>>
enrichVars == <<calls, joined, analysis>>
sinkVars == <<storage, uploads, convStatus, response>>

vars == <<client, pc, tokens, pipelineVars, enrichVars, sinkVars>>

-----------------------------------------------------------------------------
(* Bounds of the model *)

MaxTokens == 6      \* longest token list of the segmentation specification
MaxRunTokens == 2   \* longest token list of the full-run specification

-----------------------------------------------------------------------------
(* Program constants *)

MAX_SEGMENT_DURATION_MS == 25000
LONG_SEGMENT_THRESHOLD_MS == 20000
BASE_PAUSE_THRESHOLD_MS == 2000
REDUCED_PAUSE_THRESHOLD_MS == 1000
LONG_PAUSE_MS == 800
SHORT_PAUSE_MS == 300
maxSentencesPerSegment == 4

conversationId == "c1"

-----------------------------------------------------------------------------
(* Text helpers: JavaScript string operations on sequences of characters *)

UpperLetters == <<"A","B","C","D","E","F","G","H","I","J","K","L","M",
                  "N","O","P","Q","R","S","T","U","V","W","X","Y","Z">>
LowerLetters == <<"a","b","c","d","e","f","g","h","i","j","k","l","m",
                  "n","o","p","q","r","s","t","u","v","w","x","y","z">>

ToLowerChar(c) ==
    IF \E k \in 1..26 : UpperLetters[k] = c
    THEN LowerLetters[CHOOSE k \in 1..26 : UpperLetters[k] = c]
    ELSE c

\* String.prototype.toLowerCase
toLowerCase(text) == [k \in 1..Len(text) |-> ToLowerChar(text[k])]

RECURSIVE TrimLeft(_)
TrimLeft(text) ==
    IF Len(text) > 0 /\ Head(text) = " " THEN TrimLeft(Tail(text)) ELSE text

RECURSIVE TrimRight(_)
TrimRight(text) ==
    IF Len(text) > 0 /\ text[Len(text)] = " "
    THEN TrimRight(SubSeq(text, 1, Len(text) - 1))
    ELSE text

\* String.prototype.trim
trim(text) == TrimRight(TrimLeft(text))

\* /[.,!?;:]$/.test(text)
EndsWithPunctuation(text) ==
    Len(text) > 0 /\ text[Len(text)] \in {".", ",", "!", "?", ";", ":"}

\* text.match(/[.!?]$/)
EndsWithTerminator(text) ==
    Len(text) > 0 /\ text[Len(text)] \in {".", "!", "?"}

\* text.split(' ').pop(): the part after the last space
RECURSIVE LastWord(_)
LastWord(text) ==
    IF \E k \in 1..Len(text) : text[k] = " "
    THEN LastWord(Tail(text))
    ELSE text

\* segmentTokens.map(t => t.text).join(' ')
RECURSIVE JoinTexts(_)
JoinTexts(toks) ==
    IF Len(toks) = 0 THEN <<>>
    ELSE IF Len(toks) = 1 THEN toks[1].text
    ELSE toks[1].text \o <<" ">> \o JoinTexts(Tail(toks))

-----------------------------------------------------------------------------
(* Punctuator *)

questionWords == { <<"w","h","a","t">>, <<"w","h","e","r","e">>,
                   <<"w","h","e","n">>, <<"w","h","y">>, <<"h","o","w">>,
                   <<"w","h","o">>, <<"w","h","i","c","h">> }

\* mutant: a gap of exactly 800 ms is taken for a short pause
GapMark_LongPauseExclusive(text, gap) ==
    IF gap > LONG_PAUSE_MS
    THEN IF LastWord(toLowerCase(text)) \in questionWords THEN <<"?">> ELSE <<".">>
    ELSE IF gap >= SHORT_PAUSE_MS THEN <<",">>
    ELSE <<>>

\* what is appended to the text of a token followed by another after gap ms
GapMark(text, gap) ==
    IF gap >= LONG_PAUSE_MS
    THEN IF LastWord(toLowerCase(text)) \in questionWords THEN <<"?">> ELSE <<".">>
    ELSE IF gap >= SHORT_PAUSE_MS THEN <<",">>
    ELSE <<>>

\* mutant: the last token is treated like the others and gets no period
PunctuateToken_NoFinalPeriod(toks, idx) ==
    LET token == toks[idx]
        text  == trim(token.text)
    IN  IF EndsWithPunctuation(text) THEN token
        ELSE IF idx < Len(toks)
        THEN [token EXCEPT !.text =
                 text \o GapMark(text, toks[idx + 1].start_ms - token.end_ms)]
        ELSE [token EXCEPT !.text = text]

\* the callback of tokens.map in addPunctuationToTokens
PunctuateToken(toks, idx) ==
    LET token == toks[idx]
        text  == trim(token.text)
    IN  IF EndsWithPunctuation(text) THEN token
        ELSE IF idx < Len(toks)
        THEN [token EXCEPT !.text =
                 text \o GapMark(text, toks[idx + 1].start_ms - token.end_ms)]
        ELSE [token EXCEPT !.text = text \o <<".">>]

\* mutant: the loop stops one token early and the last token is lost
addPunctuationToTokens_StopsEarly(toks) ==
    IF Len(toks) = 0 THEN toks
    ELSE [idx \in 1..(Len(toks) - 1) |-> PunctuateToken(toks, idx)]

addPunctuationToTokens(toks) ==
    IF Len(toks) = 0 THEN toks
    ELSE [idx \in 1..Len(toks) |-> PunctuateToken(toks, idx)]

-----------------------------------------------------------------------------
(* Segmenter, Pass A: pause / duration segmentation *)

\* mutant: the threshold is not reduced for long blocks
pauseThreshold_NoReduction(currentDurationMs) == BASE_PAUSE_THRESHOLD_MS

pauseThreshold(currentDurationMs) ==
    IF currentDurationMs >= LONG_SEGMENT_THRESHOLD_MS
    THEN REDUCED_PAUSE_THRESHOLD_MS
    ELSE BASE_PAUSE_THRESHOLD_MS

\* mutant: the cap is compared with one zero too many
wouldExceedMax_WrongCap(currentDurationMs) == currentDurationMs >= 250000

wouldExceedMax(currentDurationMs) ==
    currentDurationMs >= MAX_SEGMENT_DURATION_MS

\* gap to the next token meets the threshold (false for the last token)
hasSignificantPause(toks, i, threshold) ==
    i < Len(toks) /\ toks[i + 1].start_ms - toks[i].end_ms >= threshold

\* mutant: the pause is measured from the start of the token before it
PauseAfter_FromTokenStart(toks, i) ==
    [start      |-> toks[i].start_ms,
     end        |-> toks[i + 1].start_ms,
     durationMs |-> toks[i + 1].start_ms - toks[i].start_ms]

\* the pause record pushed when the block is closed after token i
PauseAfter(toks, i) ==
    [start      |-> toks[i].end_ms,
     end        |-> toks[i + 1].start_ms,
     durationMs |-> toks[i + 1].start_ms - toks[i].end_ms]

\* mutant: no synthetic pause for a duration-based split
RecordsPause_NaturalOnly(significant, exceed) == significant

\* whether a pause record is pushed for a block closed after token i:
\* pauseInfo when there is one, else the synthetic marker of a forced split
RecordsPause(significant, exceed) == significant \/ exceed

\* one iteration of the for loop; st holds the loop's local variables
PassAStep(toks, i, st) ==
    LET token             == toks[i]
        currentDurationMs == token.end_ms - st.segmentStartMs
        threshold         == pauseThreshold(currentDurationMs)
        exceed            == wouldExceedMax(currentDurationMs)
        significant       == hasSignificantPause(toks, i, threshold)
        current           == Append(st.currentSegment, token)
        shouldSplit       == significant \/ exceed
    IN  IF shouldSplit /\ Len(current) > 0 /\ i < Len(toks)
        THEN [segments       |-> Append(st.segments, current),
              pauses         |-> IF RecordsPause(significant, exceed)
                                 THEN Append(st.pauses, PauseAfter(toks, i))
                                 ELSE st.pauses,
              currentSegment |-> <<>>,
              segmentStartMs |-> toks[i + 1].start_ms]
        ELSE [st EXCEPT !.currentSegment = current]

RECURSIVE PassALoop(_, _, _)
PassALoop(toks, i, st) ==
    IF i > Len(toks) THEN st
    ELSE PassALoop(toks, i + 1, PassAStep(toks, i, st))

splitIntoSegmentsDynamic(toks) ==
    IF Len(toks) = 0 THEN [segments |-> <<>>, pauses |-> <<>>]
    ELSE LET st == PassALoop(toks, 1,
                     [segments       |-> <<>>,
                      pauses         |-> <<>>,
                      currentSegment |-> <<>>,
                      segmentStartMs |-> toks[1].start_ms])
         IN  [segments |-> IF Len(st.currentSegment) > 0
                           THEN Append(st.segments, st.currentSegment)
                           ELSE st.segments,
              pauses   |-> st.pauses]

splitIntoSegments(toks) == splitIntoSegmentsDynamic(toks)

-----------------------------------------------------------------------------
(* Segmenter, Pass B: sentence split *)

\* mutant: the segment is closed one sentence late
hitMaxSentences_OneLate(sentenceCount, maxSentences) == sentenceCount > maxSentences

\* "if we've hit the max sentences, start a new segment"
hitMaxSentences(sentenceCount, maxSentences) == sentenceCount >= maxSentences

\* one iteration of the for loop of splitBySentences
SentenceStep(toks, i, st, maxSentences) ==
    LET current == Append(st.currentSegment, toks[i])
    IN  IF EndsWithTerminator(toks[i].text)
        THEN IF hitMaxSentences(st.sentenceCount + 1, maxSentences)
             THEN [segments       |-> Append(st.segments, current),
                   currentSegment |-> <<>>,
                   sentenceCount  |-> 0]
             ELSE [st EXCEPT !.currentSegment = current,
                             !.sentenceCount = st.sentenceCount + 1]
        ELSE [st EXCEPT !.currentSegment = current]

RECURSIVE SentenceLoop(_, _, _, _)
SentenceLoop(toks, i, st, maxSentences) ==
    IF i > Len(toks) THEN st
    ELSE SentenceLoop(toks, i + 1, SentenceStep(toks, i, st, maxSentences),
                      maxSentences)

\* mutant: the tokens left over at the end of the block are forgotten
FlushLast_Dropped(segments, currentSegment) == segments

\* the "don't forget the last segment" step of splitBySentences
FlushLast(segments, currentSegment) ==
    IF Len(currentSegment) > 0 THEN Append(segments, currentSegment)
    ELSE segments

splitBySentences(toks, maxSentences) ==
    LET st  == SentenceLoop(toks, 1,
                 [segments |-> <<>>, currentSegment |-> <<>>,
                  sentenceCount |-> 0], maxSentences)
        out == FlushLast(st.segments, st.currentSegment)
    IN  IF Len(out) > 0 THEN out ELSE <<toks>>

-----------------------------------------------------------------------------
(* Tagger: analyzeSegment *)

FILLER_WORDS == {
    <<"u","m">>,
    <<"u","h">>,
    <<"u","h","m">>,
    <<"u","m","m">>,
    <<"e","r">>,
    <<"a","h">>,
    <<"l","i","k","e">>,
    <<"y","o","u"," ","k","n","o","w">>,
    <<"s","o">>,
    <<"b","a","s","i","c","a","l","l","y">>,
    <<"a","c","t","u","a","l","l","y">>,
    <<"l","i","t","e","r","a","l","l","y">>,
    <<"r","i","g","h","t">>,
    <<"o","k","a","y">>,
    <<"w","e","l","l">> }

HEDGING_STARTERS == <<
    <<"s","o","r","t"," ","o","f">>,
    <<"k","i","n","d"," ","o","f">>,
    <<"i"," ","t","h","i","n","k">>,
    <<"i"," ","g","u","e","s","s">>,
    <<"i"," ","m","e","a","n">>,
    <<"m","a","y","b","e">>,
    <<"p","e","r","h","a","p","s">>,
    <<"p","r","o","b","a","b","l","y">>,
    <<"m","i","g","h","t">>,
    <<"c","o","u","l","d"," ","b","e">> >>

\* s.replace(/[.,!?;:]/g, '')
RECURSIVE StripPunctuation(_)
StripPunctuation(text) ==
    IF Len(text) = 0 THEN <<>>
    ELSE IF Head(text) \in {".", ",", "!", "?", ";", ":"}
    THEN StripPunctuation(Tail(text))
    ELSE <<Head(text)>> \o StripPunctuation(Tail(text))

\* mutant: the punctuation is left on the word
NormalizeWord_CaseOnly(text) == toLowerCase(text)

\* token.text.toLowerCase().replace(/[.,!?;:]/g, '')
NormalizeWord(text) == StripPunctuation(toLowerCase(text))

\* String.prototype.startsWith
startsWith(text, prefix) ==
    Len(prefix) <= Len(text) /\ SubSeq(text, 1, Len(prefix)) = prefix

\* hedge.split(' ').length
WordCount(text) == Cardinality({k \in 1..Len(text) : text[k] = " "}) + 1

\* the elements of a set of integers in increasing order
RECURSIVE SortedSeq(_)
SortedSeq(S) ==
    IF S = {} THEN <<>>
    ELSE LET m == CHOOSE x \in S : \A y \in S : x <= y
         IN  <<m>> \o SortedSeq(S \ {m})

\* the normalised word of every token of the segment
NormalizedWords(toks) == [idx \in 1..Len(toks) |-> NormalizeWord(toks[idx].text)]

\* fillerWords collected by the forEach; positions are 1-based here
FillerWordsOf(words) ==
    LET hits  == {idx \in 1..Len(words) : words[idx] \in FILLER_WORDS}
        order == SortedSeq(hits)
    IN  [k \in 1..Len(order) |-> [word |-> words[order[k]], index |-> order[k]]]

\* `${word} ${next word}` built for the look-ahead
TwoWords(words, idx) == words[idx] \o <<" ">> \o words[idx + 1]

\* the first phrase of HEDGING_STARTERS, from position h on, that twoWords
\* starts with (0 when there is none): the for ... break loop
RECURSIVE FirstHedge(_, _)
FirstHedge(twoWords, h) ==
    IF h > Len(HEDGING_STARTERS) THEN 0
    ELSE IF startsWith(twoWords, HEDGING_STARTERS[h]) THEN h
    ELSE FirstHedge(twoWords, h + 1)

\* the look-ahead is made for every token but the last
HedgeAt(words, idx) ==
    IF idx < Len(words) THEN FirstHedge(TwoWords(words, idx), 1) ELSE 0

\* hedging collected by the forEach
HedgingOf(words) ==
    LET found == [idx \in 1..Len(words) |-> HedgeAt(words, idx)]
        order == SortedSeq({idx \in 1..Len(words) : found[idx] # 0})
    IN  [k \in 1..Len(order) |->
            LET hedge == HEDGING_STARTERS[found[order[k]]]
            IN  [phrase     |-> hedge,
                 startIndex |-> order[k],
                 endIndex   |-> order[k] + WordCount(hedge) - 1]]

\* Math.round(a / b) for a >= 0, b > 0
RoundDiv(a, b) == (2 * a + b) \div (2 * b)

\* mutant: the wpm of a segment is computed without the test on the duration;
\* the division by zero gives Infinity, written Infinity below
Infinity == 0 - 1
SegmentWpm_Unguarded(n, durationMs) ==
    IF durationMs = 0 THEN Infinity ELSE RoundDiv(n * 60000, durationMs)

\* wpm of a segment as its pace label shows it, wpm.toFixed(0):
\* durationSec > 0 ? (tokens / durationSec) * 60 : 0
SegmentWpm(n, durationMs) ==
    IF durationMs > 0 THEN RoundDiv(n * 60000, durationMs) ELSE 0

\* mutant: a segment spoken at exactly 110 wpm is taken for slow and one at
\* exactly 200 wpm for very fast
PaceStatus_InclusiveBands(n, durationMs) ==
    IF durationMs <= 0 THEN "slow"
    ELSE IF n * 60000 <= 110 * durationMs THEN "slow"
    ELSE IF n * 60000 >= 200 * durationMs THEN "very_fast"
    ELSE IF n * 60000 > 160 * durationMs THEN "fast"
    ELSE "normal"

\* pace.status from wpm = (tokens / durationSec) * 60, 0 when durationSec <= 0;
\* the comparisons are made on exact rationals: wpm < k  <=>  n * 60000 < k * durationMs
PaceStatus(n, durationMs) ==
    IF durationMs <= 0 THEN "slow"
    ELSE IF n * 60000 < 110 * durationMs THEN "slow"
    ELSE IF n * 60000 > 200 * durationMs THEN "very_fast"
    ELSE IF n * 60000 > 160 * durationMs THEN "fast"
    ELSE "normal"

PaceSeverity(status) ==
    IF status = "slow" THEN "medium"
    ELSE IF status = "very_fast" THEN "high"
    ELSE IF status = "fast" THEN "medium"
    ELSE "low"

\* tags of token idx: filler tags first, then one hedging tag per covering phrase
TokenTags(toks, idx, fillerWords, hedging) ==
    LET fsel == SelectSeq(fillerWords, LAMBDA f : f.index = idx)
        hsel == SelectSeq(hedging, LAMBDA h : idx >= h.startIndex /\ idx <= h.endIndex)
    IN  [k \in 1..Len(fsel) |->
            [id |-> <<toks[idx].id, "filler">>, kind |-> "filler",
             severity |-> "medium", data |-> fsel[k].word]]
        \o
        [k \in 1..Len(hsel) |->
            [id |-> <<toks[idx].id, "hedging">>, kind |-> "hedging",
             severity |-> "medium",
             data |-> [phrase |-> hsel[k].phrase,
                       start  |-> hsel[k].startIndex,
                       end    |-> hsel[k].endIndex]]]

\* number of elements of a sequence that satisfy a test
CountKind(tags, kind) == Len(SelectSeq(tags, LAMBDA t : t.kind = kind))

RECURSIVE SumSeq(_)
SumSeq(s) == IF Len(s) = 0 THEN 0 ELSE Head(s) + SumSeq(Tail(s))

\* mutant: the aggregate tags are added from 2 fillers and from 1 phrase on
SegmentTags_OffByOne(segmentId, status, wpmLabel, totalFillers, hedgingCount) ==
    (IF status \in {"very_fast", "fast", "slow"}
     THEN << [id |-> <<segmentId, "pace">>, kind |-> status,
              severity |-> PaceSeverity(status), data |-> wpmLabel] >>
     ELSE <<>>)
    \o
    (IF totalFillers >= 2
     THEN << [id |-> <<segmentId, "filler">>, kind |-> "filler",
              severity |-> IF totalFillers > 4 THEN "high" ELSE "medium",
              data |-> <<>>] >>
     ELSE <<>>)
    \o
    (IF hedgingCount >= 1
     THEN << [id |-> <<segmentId, "hedging">>, kind |-> "hedging",
              severity |-> IF hedgingCount > 2 THEN "high" ELSE "medium",
              data |-> <<>>] >>
     ELSE <<>>)

SegmentTags(segmentId, status, wpmLabel, totalFillers, hedgingCount) ==
    (IF status \in {"very_fast", "fast", "slow"}
     THEN << [id |-> <<segmentId, "pace">>, kind |-> status,
              severity |-> PaceSeverity(status), data |-> wpmLabel] >>
     ELSE <<>>)
    \o
    (IF totalFillers > 2
     THEN << [id |-> <<segmentId, "filler">>, kind |-> "filler",
              severity |-> IF totalFillers > 4 THEN "high" ELSE "medium",
              data |-> <<>>] >>
     ELSE <<>>)
    \o
    (IF hedgingCount > 1
     THEN << [id |-> <<segmentId, "hedging">>, kind |-> "hedging",
              severity |-> IF hedgingCount > 2 THEN "high" ELSE "medium",
              data |-> <<>>] >>
     ELSE <<>>)

analyzeSegment(segmentTokens, segmentIndex, convId) ==
    LET startMs       == segmentTokens[1].start_ms
        endMs         == segmentTokens[Len(segmentTokens)].end_ms
        words         == NormalizedWords(segmentTokens)
        fillerWords   == FillerWordsOf(words)
        hedging       == HedgingOf(words)
        status        == PaceStatus(Len(segmentTokens), endMs - startMs)
        segmentId     == <<"seg", convId, segmentIndex>>
        tokenWithTags == [idx \in 1..Len(segmentTokens) |->
                            [id      |-> segmentTokens[idx].id,
                             startMs |-> segmentTokens[idx].start_ms,
                             endMs   |-> segmentTokens[idx].end_ms,
                             text    |-> segmentTokens[idx].text,
                             tags    |-> TokenTags(segmentTokens, idx, fillerWords, hedging)]]
        totalFillers  == SumSeq([idx \in 1..Len(tokenWithTags) |->
                                    CountKind(tokenWithTags[idx].tags, "filler")])
    IN  [id      |-> segmentId,
         startMs |-> startMs,
         endMs   |-> endMs,
         kind    |-> "speech",
         text    |-> JoinTexts(segmentTokens),
         tokens  |-> tokenWithTags,
         tags    |-> SegmentTags(segmentId, status,
                                 SegmentWpm(Len(segmentTokens), endMs - startMs),
                                 totalFillers, Len(hedging))]

-----------------------------------------------------------------------------
(* Handler: flattening, interleave of pause segments *)

\* segmentsToAnalyze: the content segments of all blocks, in order
RECURSIVE Flatten(_)
Flatten(perBlock) ==
    IF Len(perBlock) = 0 THEN <<>>
    ELSE Head(perBlock) \o Flatten(Tail(perBlock))

\* mutant: a pause of exactly 4000 ms is rated medium
PauseSegment_InclusiveSeverity(pause, blockIdx, convId) ==
    [id      |-> <<"pause", convId, blockIdx>>,
     startMs |-> pause.start,
     endMs   |-> pause.end,
     kind    |-> "pause",
     text    |-> <<>>,
     tokens  |-> <<>>,
     tags    |-> << [id       |-> <<"pause", convId, blockIdx, "tag">>,
                     kind     |-> "pause",
                     severity |-> IF pause.durationMs >= 4000 THEN "medium" ELSE "low",
                     data     |-> pause.durationMs] >>]

\* the pause segment built for pauses[blockIdx] (blockIdx is 0-based in ids)
PauseSegment(pause, blockIdx, convId) ==
    [id      |-> <<"pause", convId, blockIdx>>,
     startMs |-> pause.start,
     endMs   |-> pause.end,
     kind    |-> "pause",
     text    |-> <<>>,
     tokens  |-> <<>>,
     tags    |-> << [id       |-> <<"pause", convId, blockIdx, "tag">>,
                     kind     |-> "pause",
                     severity |-> IF pause.durationMs > 4000 THEN "medium" ELSE "low",
                     data     |-> pause.durationMs] >>]

\* mutant: off by one, the last pause is never inserted
PauseFollowsBlock_OffByOne(b, pauseList) == b < Len(pauseList)

\* whether a pause segment follows block b (1-based) in the interleave loop
PauseFollowsBlock(b, pauseList) == b <= Len(pauseList)

\* mutant: the pause segment is pushed before the speech segments of its block
BlockSegments_PauseFirst(speech, b, pauseList) ==
    (IF PauseFollowsBlock(b, pauseList)
     THEN <<PauseSegment(pauseList[b], b - 1, conversationId)>>
     ELSE <<>>)
    \o speech

\* one iteration of the interleave loop: the speech segments of block b,
\* then the pause segment that follows the block
BlockSegments(speech, b, pauseList) ==
    speech
    \o (IF PauseFollowsBlock(b, pauseList)
        THEN <<PauseSegment(pauseList[b], b - 1, conversationId)>>
        ELSE <<>>)

\* the interleave loop from block b on; analyzedIdx speech segments are consumed
RECURSIVE InterleaveFrom(_, _, _, _, _)
InterleaveFrom(b, analyzedIdx, perBlock, analyzed, pauseList) ==
    IF b > Len(perBlock) THEN <<>>
    ELSE LET n == Len(perBlock[b])
         IN  BlockSegments(SubSeq(analyzed, analyzedIdx + 1, analyzedIdx + n),
                           b, pauseList)
             \o InterleaveFrom(b + 1, analyzedIdx + n, perBlock, analyzed, pauseList)

-----------------------------------------------------------------------------
(* Metrics Calculator *)

\* mutant: the aggregate filler tags of the segments are counted too
calculateMetrics_CountsSegmentTags(segments, pauseList) ==
    LET totalWords         == SumSeq([k \in 1..Len(segments) |-> Len(segments[k].tokens)])
        totalDurationMs    == IF Len(segments) > 0
                              THEN segments[Len(segments)].endMs - segments[1].startMs
                              ELSE 0
        speakingDurationMs == SumSeq([k \in 1..Len(segments) |->
                                         segments[k].endMs - segments[k].startMs])
        fillerCount        == SumSeq([k \in 1..Len(segments) |->
                                 SumSeq([j \in 1..Len(segments[k].tokens) |->
                                     CountKind(segments[k].tokens[j].tags, "filler")])])
                              + SumSeq([k \in 1..Len(segments) |->
                                           CountKind(segments[k].tags, "filler")])
        fastSegments       == Len(SelectSeq(segments, LAMBDA sg : CountKind(sg.tags, "fast") > 0))
    IN  [durationSec           |-> RoundDiv(totalDurationMs, 1000),
         totalWords            |-> totalWords,
         avgWpm                |-> IF speakingDurationMs > 0
                                   THEN RoundDiv(totalWords * 60000, speakingDurationMs)
                                   ELSE 0,
         fillerCount           |-> fillerCount,
         fillerPerMinuteTenths |-> IF totalDurationMs > 0
                                   THEN RoundDiv(fillerCount * 600000, totalDurationMs)
                                   ELSE 0,
         stressSpeedHundredths |-> IF Len(segments) > 0
                                   THEN RoundDiv(fastSegments * 100, Len(segments))
                                   ELSE 0]

\* mutant: avgWpm is computed over the wall-clock duration
calculateMetrics_UnifiedDenominator(segments, pauseList) ==
    LET totalWords         == SumSeq([k \in 1..Len(segments) |-> Len(segments[k].tokens)])
        totalDurationMs    == IF Len(segments) > 0
                              THEN segments[Len(segments)].endMs - segments[1].startMs
                              ELSE 0
        speakingDurationMs == SumSeq([k \in 1..Len(segments) |->
                                         segments[k].endMs - segments[k].startMs])
        fillerCount        == SumSeq([k \in 1..Len(segments) |->
                                 SumSeq([j \in 1..Len(segments[k].tokens) |->
                                     CountKind(segments[k].tokens[j].tags, "filler")])])
        fastSegments       == Len(SelectSeq(segments, LAMBDA sg : CountKind(sg.tags, "fast") > 0))
    IN  [durationSec           |-> RoundDiv(totalDurationMs, 1000),
         totalWords            |-> totalWords,
         avgWpm                |-> IF totalDurationMs > 0
                                   THEN RoundDiv(totalWords * 60000, totalDurationMs)
                                   ELSE 0,
         fillerCount           |-> fillerCount,
         fillerPerMinuteTenths |-> IF totalDurationMs > 0
                                   THEN RoundDiv(fillerCount * 600000, totalDurationMs)
                                   ELSE 0,
         stressSpeedHundredths |-> IF Len(segments) > 0
                                   THEN RoundDiv(fastSegments * 100, Len(segments))
                                   ELSE 0]

\* fillerPerMinute is kept in tenths and stressSpeedIndex in hundredths
\* (toFixed(1), toFixed(2)); the three random biometric fields are left out
calculateMetrics(segments, pauseList) ==
    LET totalWords         == SumSeq([k \in 1..Len(segments) |-> Len(segments[k].tokens)])
        totalDurationMs    == IF Len(segments) > 0
                              THEN segments[Len(segments)].endMs - segments[1].startMs
                              ELSE 0
        speakingDurationMs == SumSeq([k \in 1..Len(segments) |->
                                         segments[k].endMs - segments[k].startMs])
        fillerCount        == SumSeq([k \in 1..Len(segments) |->
                                 SumSeq([j \in 1..Len(segments[k].tokens) |->
                                     CountKind(segments[k].tokens[j].tags, "filler")])])
        fastSegments       == Len(SelectSeq(segments, LAMBDA sg : CountKind(sg.tags, "fast") > 0))
    IN  [durationSec           |-> RoundDiv(totalDurationMs, 1000),
         totalWords            |-> totalWords,
         avgWpm                |-> IF speakingDurationMs > 0
                                   THEN RoundDiv(totalWords * 60000, speakingDurationMs)
                                   ELSE 0,
         fillerCount           |-> fillerCount,
         fillerPerMinuteTenths |-> IF totalDurationMs > 0
                                   THEN RoundDiv(fillerCount * 600000, totalDurationMs)
                                   ELSE 0,
         stressSpeedHundredths |-> IF Len(segments) > 0
                                   THEN RoundDiv(fastSegments * 100, Len(segments))
                                   ELSE 0]

-----------------------------------------------------------------------------
(* Enrichment: issues, title, coaching highlights *)

Derivations == {"issues", "title", "highlights"}

\* the ways callOpenAI throws: fetch rejects, response.ok is false, the
\* response has no choices[0].message
CallFailures == {"network_error", "http_error", "bad_envelope"}

\* text.split(/\s+/): the pieces between runs of spaces
RECURSIVE SplitOnSpaces(_, _)
SplitOnSpaces(text, current) ==
    IF Len(text) = 0 THEN <<current>>
    ELSE IF Head(text) = " "
    THEN IF Len(text) > 1 /\ text[2] = " "
         THEN SplitOnSpaces(Tail(text), current)
         ELSE <<current>> \o SplitOnSpaces(Tail(text), <<>>)
    ELSE SplitOnSpaces(Tail(text), Append(current, Head(text)))

SplitWords(text) == SplitOnSpaces(text, <<>>)

RECURSIVE JoinWords(_, _)
JoinWords(words, sep) ==
    IF Len(words) = 0 THEN <<>>
    ELSE IF Len(words) = 1 THEN words[1]
    ELSE words[1] \o sep \o JoinWords(Tail(words), sep)

\* allText.split(/\s+/).slice(0, n).join(' ')
TruncateWords(text, n) ==
    LET words == SplitWords(text)
    IN  JoinWords(SubSeq(words, 1, IF Len(words) < n THEN Len(words) ELSE n), <<" ">>)

\* segments.map(s => s.text).join(' ')
RECURSIVE JoinSegmentTexts(_)
JoinSegmentTexts(segs) ==
    IF Len(segs) = 0 THEN <<>>
    ELSE IF Len(segs) = 1 THEN segs[1].text
    ELSE segs[1].text \o <<" ">> \o JoinSegmentTexts(Tail(segs))

IsLetter(c) ==
    \E k \in 1..26 : UpperLetters[k] = c \/ LowerLetters[k] = c

ToUpperChar(c) ==
    IF \E k \in 1..26 : LowerLetters[k] = c
    THEN UpperLetters[CHOOSE k \in 1..26 : LowerLetters[k] = c]
    ELSE c

\* text.replace(/[^a-zA-Z\s]/g, '')
KeepLettersAndSpaces(text) == SelectSeq(text, LAMBDA c : IsLetter(c) \/ c = " ")

\* w.charAt(0).toUpperCase() + w.slice(1).toLowerCase()
Capitalize(w) ==
    IF Len(w) = 0 THEN w
    ELSE <<ToUpperChar(w[1])>> \o toLowerCase(Tail(w))

UntitledSession == <<"U","n","t","i","t","l","e","d"," ","S","e","s","s","i","o","n">>

generateFallbackTitle(text) ==
    LET long  == SelectSeq(SplitWords(KeepLettersAndSpaces(text)), LAMBDA w : Len(w) > 3)
        words == SubSeq(long, 1, IF Len(long) < 4 THEN Len(long) ELSE 4)
    IN  IF Len(words) >= 2
        THEN LET three == SubSeq(words, 1, IF Len(words) < 3 THEN Len(words) ELSE 3)
             IN  JoinWords([k \in 1..Len(three) |-> Capitalize(three[k])], <<" ">>)
                 \o <<".", ".", ".">>
        ELSE UntitledSession

\* the text that generateSessionTitle summarises
TitleText(segs) == TruncateWords(JoinSegmentTexts(segs), 100)

\* generateSessionTitle returns before any model call for a short text
TitleNeedsNoCall(segs) == Len(TitleText(segs)) = 0 \/ Len(TitleText(segs)) < 20

\* parsed.title.replace(/^["']|["']$/g, '').trim(), cut to 47 characters + '...'
CleanTitle(raw) ==
    LET a == IF Len(raw) > 0 /\ Head(raw) \in {"\"", "'"} THEN Tail(raw) ELSE raw
        b == IF Len(a) > 0 /\ a[Len(a)] \in {"\"", "'"} THEN SubSeq(a, 1, Len(a) - 1) ELSE a
        t == trim(b)
    IN  IF Len(t) > 50 THEN SubSeq(t, 1, 47) \o <<".", ".", ".">> ELSE t

\* what generateSessionTitle returns for the content of a model answer
\* (form: "unparseable" | "no_title" | "title")
TitleFromContent(content, segs) ==
    IF content.form = "title" /\ Len(content.title) > 0
    THEN CleanTitle(content.title)
    ELSE generateFallbackTitle(TitleText(segs))

\* what generateSessionTitle returns when callOpenAI throws
TitleOnCallFailure(segs) == generateFallbackTitle(TitleText(segs))

SeverityOrder(sev) == IF sev = "high" THEN 0 ELSE IF sev = "medium" THEN 1 ELSE 2

\* issues.sort(by severity)[0]: the first issue of the lowest order value
TopIssue(issues) ==
    LET best == CHOOSE k \in 1..Len(issues) :
                    /\ \A j \in 1..Len(issues) :
                           SeverityOrder(issues[k].severity) <= SeverityOrder(issues[j].severity)
                    /\ \A j \in 1..(k - 1) :
                           SeverityOrder(issues[j].severity) > SeverityOrder(issues[k].severity)
    IN  issues[best]

\* mutant: an average of exactly 110 wpm is not taken for a good pace
generateFallbackHighlights_ExclusivePace(m, issues) ==
    LET pace ==
            IF m.avgWpm > 110 /\ m.avgWpm <= 160
            THEN << [type |-> "strength", title |-> "Good speaking pace",
                     severity |-> "none"] >>
            ELSE IF m.avgWpm > 160
            THEN << [type |-> "improvement", title |-> "Slow down your pace",
                     severity |-> IF m.avgWpm > 200 THEN "high" ELSE "medium"] >>
            ELSE IF m.avgWpm < 110
            THEN << [type |-> "improvement", title |-> "Speed up your pace",
                     severity |-> "low"] >>
            ELSE <<>>
        filler ==
            IF m.fillerPerMinuteTenths < 20
            THEN << [type |-> "strength", title |-> "Minimal filler words",
                     severity |-> "none"] >>
            ELSE IF m.fillerPerMinuteTenths > 30
            THEN << [type |-> "improvement", title |-> "Reduce filler words",
                     severity |-> IF m.fillerPerMinuteTenths > 50 THEN "high" ELSE "medium"] >>
            ELSE <<>>
        both == pace \o filler
    IN  IF Len(SelectSeq(both, LAMBDA h : h.type = "improvement")) = 0 /\ Len(issues) > 0
        THEN Append(both, [type |-> "improvement", title |-> TopIssue(issues).kind,
                           severity |-> TopIssue(issues).severity])
        ELSE both

\* fillerPerMinute is compared in tenths
generateFallbackHighlights(m, issues) ==
    LET pace ==
            IF m.avgWpm >= 110 /\ m.avgWpm <= 160
            THEN << [type |-> "strength", title |-> "Good speaking pace",
                     severity |-> "none"] >>
            ELSE IF m.avgWpm > 160
            THEN << [type |-> "improvement", title |-> "Slow down your pace",
                     severity |-> IF m.avgWpm > 200 THEN "high" ELSE "medium"] >>
            ELSE IF m.avgWpm < 110
            THEN << [type |-> "improvement", title |-> "Speed up your pace",
                     severity |-> "low"] >>
            ELSE <<>>
        filler ==
            IF m.fillerPerMinuteTenths < 20
            THEN << [type |-> "strength", title |-> "Minimal filler words",
                     severity |-> "none"] >>
            ELSE IF m.fillerPerMinuteTenths > 30
            THEN << [type |-> "improvement", title |-> "Reduce filler words",
                     severity |-> IF m.fillerPerMinuteTenths > 50 THEN "high" ELSE "medium"] >>
            ELSE <<>>
        both == pace \o filler
    IN  IF Len(SelectSeq(both, LAMBDA h : h.type = "improvement")) = 0 /\ Len(issues) > 0
        THEN Append(both, [type |-> "improvement", title |-> TopIssue(issues).kind,
                           severity |-> TopIssue(issues).severity])
        ELSE both

\* the defaults applied to the highlights of a model answer
MapHighlight(h) ==
    [type     |-> IF h.type = "" THEN "improvement" ELSE h.type,
     title    |-> IF h.title = "" THEN "General feedback" ELSE h.title,
     severity |-> h.severity]

\* what generateCoachingHighlights returns for the content of a model answer
\* (form: "unparseable" | "no_highlights" | "highlights")
HighlightsFromContent(content, m, issues) ==
    IF content.form = "highlights"
    THEN [k \in 1..Len(content.highlights) |-> MapHighlight(content.highlights[k])]
    ELSE generateFallbackHighlights(m, issues)

\* what generateCoachingHighlights returns when callOpenAI throws
HighlightsOnCallFailure(m, issues) == generateFallbackHighlights(m, issues)

\* issuesData of generateOverallIssues for the content of a model answer:
\* "array" is a JSON array that parses, "broken_array" one that JSON.parse
\* rejects (caught, []), "objects" is text without an array but with {...}
\* objects that parse, "prose" has neither
IssuesData(content) ==
    IF content.form \in {"array", "objects"} THEN content.items ELSE <<>>

\* the map at the end of generateOverallIssues (idx is 0-based in the ids)
IssuesFromData(issuesData, convId) ==
    [k \in 1..Len(issuesData) |->
        [id         |-> <<"issue", convId, k - 1>>,
         kind       |-> IF issuesData[k].kind = "" THEN "general" ELSE issuesData[k].kind,
         severity   |-> IF issuesData[k].severity = "" THEN "medium" ELSE issuesData[k].severity,
         segmentIds |-> [j \in 1..Len(issuesData[k].segmentIndices) |->
                            <<"seg", convId, issuesData[k].segmentIndices[j]>>]]]

\* the model answers of the runs
IssuesContents ==
    { [form |-> "prose", items |-> <<>>],
      [form |-> "broken_array", items |-> <<>>],
      [form |-> "array", items |-> <<>>],
      [form |-> "array",
       items |-> << [kind |-> "filler", severity |-> "high", segmentIndices |-> <<0>>],
                    [kind |-> "", severity |-> "", segmentIndices |-> <<>>] >>],
      [form |-> "array",
       items |-> << [kind |-> "pace", severity |-> "low",
                     segmentIndices |-> <<0, 7, 0 - 1>>] >>] }

TitleContents ==
    { [form |-> "unparseable", title |-> <<>>],
      [form |-> "no_title", title |-> <<>>],
      [form |-> "title", title |-> <<"\"","M","y"," ","T","a","l","k","\"">>] }

HighlightsContents ==
    { [form |-> "unparseable", highlights |-> <<>>],
      [form |-> "no_highlights", highlights |-> <<>>],
      [form |-> "highlights",
       highlights |-> << [type |-> "strength", title |-> "Clear opening", severity |-> "none"],
                         [type |-> "", title |-> "", severity |-> "medium"] >>] }

Contents(d) ==
    IF d = "issues" THEN IssuesContents
    ELSE IF d = "title" THEN TitleContents
    ELSE HighlightsContents

-----------------------------------------------------------------------------
(* Inputs: the upload-audio function inserts transcribed words as token rows *)

TokenRow(n, start, dur, text) ==
    [id |-> n, conversation_id |-> conversationId,
     start_ms |-> start, end_ms |-> start + dur, text |-> text]

\* start offsets, gaps, durations and texts of the words of the segmentation runs
SegStarts == {0}
SegGaps   == {0, 1000, 2000}
SegDurs   == {200, 10000}
SegTexts  == { <<"o","k">> }

\* start offsets, gaps, durations and texts of the words of the full runs
RunStarts == {0}
RunGaps   == {0, 2000}
RunDurs   == {400, 1000}
RunTexts  == { <<"u","m">>, <<"p","r","e","s","e","n","t","a","t","i","o","n">> }

\* bounds of the runs checked for termination
MaxLiveTokens == 1
LiveStarts == {0}
LiveGaps   == {0, 2000}
LiveDurs   == {400}
LiveTexts  == { <<"u","m">>, <<"o","k">> }

\* bounds of the punctuation runs
MaxPunctTokens == 3

\* start offsets, gaps, durations and texts of the words of the punctuation runs
PunctStarts == {0}
PunctGaps   == {299, 300, 799, 800}
PunctDurs   == {200}
PunctTexts  == { <<"o","k">>, <<"W","h","y">>, <<"n","o",",">>, <<"s","o",";">>,
                 <<"a",":">>, <<"b","!">>, <<"c",".">>, <<"d","?">> }

\* bounds of the tagging runs and of the pace runs
MaxTagTokens == 5
MaxPaceTokens == 11

\* start offsets, gaps, durations and texts of the words of the tagging runs
TagStarts == {0}
TagGaps   == {0}
TagDurs   == {400}
TagTexts  == { <<"u","m">>, <<"L","i","k","e">>, <<"m","a","y","b","e">>,
               <<"i">>, <<"t","h","i","n","k">> }

\* bounds of the runs whose highlights fall back to the local rules: one word
\* of a length that puts the metrics on and next to every threshold
MaxFallbackTokens == 1
FallbackStarts == {0}
FallbackGaps   == {0}
FallbackDurs   == {100, 300, 375, 545, 550, 11000, 12000, 19000, 20000, 30000, 31000}
FallbackTexts  == { <<"u","m">>, <<"o","k">> }

\* bounds of the runs with long pauses
MaxPauseTokens == 4
PauseStarts == {0}
PauseGaps   == {0, 2000, 4000, 4001}
PauseDurs   == {200, 10000}
PauseTexts  == { <<"o","k">> }

\* bounds of the runs with words that begin like a hedging phrase
MaxHedgeTokens == 3
HedgeStarts == {0}
HedgeGaps   == {0}
HedgeDurs   == {400}
HedgeTexts  == { <<"m","i","g","h","t","y">>, <<"m","i","g","h","t">>, <<"i">>,
                 <<"t","h","i","n","k","i","n","g">>, <<"o","k">> }

\* durations and gaps of the evenly spoken words of the pace runs
PaceDurs == {0, 100, 300, 375, 500, 600}
PaceGaps == {0, 50}
PaceText == <<"w","o","r","d">>

\* bound of the metrics runs
MaxMetricTokens == 4

\* start offsets, gaps, durations and texts of the words of the metrics runs
MetricStarts == {0}
MetricGaps   == {0, 2000}
MetricDurs   == {0, 300}
MetricTexts  == { <<"u","m">>, <<"o","k">> }

\* bound of the runs around the worked example
MaxExampleTokens == 3

\* start offsets, gaps, durations and texts of the words of these runs
ExampleStarts == {0}
ExampleGaps   == {0, 2300}
ExampleDurs   == {200, 400}
ExampleTexts  == { <<"o","k">>, <<"u","m">>, <<"g","r","e","a","t">> }

-----------------------------------------------------------------------------
(* The request handler, step by step *)

NoMetrics == [durationSec |-> 0, totalWords |-> 0, avgWpm |-> 0, fillerCount |-> 0,
              fillerPerMinuteTenths |-> 0, stressSpeedHundredths |-> 0]

NoResponse == [status |-> 0, error |-> "none"]

NoAnalysis == [title |-> <<>>, segments |-> <<>>, metrics |-> NoMetrics,
               issues |-> <<>>, coachingHighlights |-> <<>>]

NoObject == [key |-> "", body |-> NoAnalysis, timing |-> "absent"]

NoCall == [state |-> "idle", outcome |-> "none", value |-> <<>>]

\* the recording client while it records conversation conversationId
RecordingClient ==
    [pc |-> "recording", conversationIdRef |-> conversationId, isRecording |-> TRUE,
     startFailed |-> FALSE, triggered |-> FALSE]

Init ==
    /\ client = RecordingClient
    /\ tokens = <<>>
    /\ pc = "recording"
    /\ punctuatedTokens = <<>>
    /\ pauseBlocks = <<>>
    /\ pauses = <<>>
    /\ contentSegmentsPerBlock = <<>>
    /\ analyzedSegments = <<>>
    /\ allSegments = <<>>
    /\ metrics = NoMetrics
    /\ calls = [d \in Derivations |-> NoCall]
    /\ joined = "none"
    /\ analysis = NoAnalysis
    /\ storage = NoObject
    /\ uploads = <<>>
    /\ convStatus = "recording"
    /\ response = NoResponse

\* upload-audio: one transcribed word is inserted after the rows already stored
InsertToken(maxLen, starts, gaps, durs, texts) ==
    /\ pc = "recording"
    /\ Len(tokens) < maxLen
    /\ \E d \in durs, t \in texts :
         \E s \in IF Len(tokens) = 0 THEN starts
                  ELSE {tokens[Len(tokens)].end_ms + g : g \in gaps} :
            tokens' = Append(tokens, TokenRow(Len(tokens) + 1, s, d, t))
    /\ UNCHANGED <<client, pc, pipelineVars, enrichVars, sinkVars>>

\* the handler fetched a non-empty token list, ordered by start_ms
FetchTokens ==
    /\ pc = "recording"
    /\ Len(tokens) > 0
    /\ pc' = "fetched"
    /\ UNCHANGED <<client, tokens, pipelineVars, enrichVars, sinkVars>>

\* mutant: an empty token list is answered as a finished analysis
FetchNoTokens_AnswersOk ==
    /\ pc = "recording"
    /\ Len(tokens) = 0
    /\ pc' = "done"
    /\ response' = [status |-> 200, error |-> "none"]
    /\ UNCHANGED <<client, tokens, pipelineVars, enrichVars, storage, uploads, convStatus>>

\* no token row: 'No tokens found' is thrown and caught, the run answers 500
FetchNoTokens ==
    /\ pc = "recording"
    /\ Len(tokens) = 0
    /\ pc' = "failed"
    /\ response' = [status |-> 500, error |-> "No tokens found"]
    /\ UNCHANGED <<client, tokens, pipelineVars, enrichVars, storage, uploads, convStatus>>

\* one of the two token queries returns an error although rows are stored:
\* the same throw, caught, the run answers 500
FetchFails ==
    /\ pc = "recording"
    /\ Len(tokens) > 0
    /\ pc' = "failed"
    /\ response' = [status |-> 500, error |-> "No tokens found"]
    /\ UNCHANGED <<client, tokens, pipelineVars, enrichVars, storage, uploads, convStatus>>

\* 0) punctuatedTokens = addPunctuationToTokens(tokens)
Punctuate ==
    /\ pc = "fetched"
    /\ punctuatedTokens' = addPunctuationToTokens(tokens)
    /\ pc' = "punctuated"
    /\ UNCHANGED <<client, tokens, pauseBlocks, pauses, contentSegmentsPerBlock,
                   analyzedSegments, allSegments, metrics, enrichVars, sinkVars>>

\* 1) { segments: pauseBlocks, pauses } = splitIntoSegments(punctuatedTokens)
\* 2) contentSegmentsPerBlock = pauseBlocks.map(b => splitBySentences(b, 4))
Segmentation ==
    /\ pc = "punctuated"
    /\ LET r == splitIntoSegments(punctuatedTokens)
       IN  /\ pauseBlocks' = r.segments
           /\ pauses' = r.pauses
           /\ contentSegmentsPerBlock' =
                  [b \in 1..Len(r.segments) |->
                      splitBySentences(r.segments[b], maxSentencesPerSegment)]
    /\ pc' = "segmented"
    /\ UNCHANGED <<client, tokens, punctuatedTokens, analyzedSegments, allSegments,
                   metrics, enrichVars, sinkVars>>

\* 3) analyzedSegments = segmentsToAnalyze.map(analyzeSegment), globalIdx from 0
AnalyzeSegments ==
    /\ pc = "segmented"
    /\ LET segmentsToAnalyze == Flatten(contentSegmentsPerBlock)
       IN  analyzedSegments' =
               [g \in 1..Len(segmentsToAnalyze) |->
                   analyzeSegment(segmentsToAnalyze[g], g - 1, conversationId)]
    /\ pc' = "analyzed"
    /\ UNCHANGED <<client, tokens, punctuatedTokens, pauseBlocks, pauses,
                   contentSegmentsPerBlock, allSegments, metrics, enrichVars, sinkVars>>

\* reconstruct the final array with pauses interleaved, then
\* metrics = calculateMetrics(speechSegments, pauses)
InterleaveAndMetrics ==
    /\ pc = "analyzed"
    /\ allSegments' = InterleaveFrom(1, 0, contentSegmentsPerBlock,
                                     analyzedSegments, pauses)
    /\ metrics' = calculateMetrics(analyzedSegments, pauses)
    /\ pc' = "metrics"
    /\ UNCHANGED <<client, tokens, punctuatedTokens, pauseBlocks, pauses,
                   contentSegmentsPerBlock, analyzedSegments, enrichVars, sinkVars>>

\* the AnalysisResult built once the three promises are fulfilled
BuildAnalysis(cs) ==
    [title              |-> cs["title"].value,
     segments           |-> allSegments,
     metrics            |-> metrics,
     issues             |-> cs["issues"].value,
     coachingHighlights |-> cs["highlights"].value]

\* the reaction of `await Promise.all([...])` to the promises cs: it rejects
\* as soon as one promise is rejected (the catch block answers 500) and is
\* fulfilled when all three are
JoinReaction(cs, error) ==
    IF \E d \in Derivations : cs[d].state = "rejected"
    THEN /\ joined' = "rejected"
         /\ analysis' = analysis
         /\ pc' = "failed"
         /\ response' = [status |-> 500, error |-> error]
    ELSE IF \A d \in Derivations : cs[d].state = "fulfilled"
    THEN /\ joined' = "fulfilled"
         /\ analysis' = BuildAnalysis(cs)
         /\ pc' = "joined"
         /\ response' = response
    ELSE /\ joined' = "pending"
         /\ analysis' = analysis
         /\ pc' = "awaiting"
         /\ response' = response

\* 4) Promise.all([generateOverallIssues(...), generateSessionTitle(...),
\*    generateCoachingHighlights(..., [], ...)]): each function runs to its
\* first await; generateSessionTitle returns at once for a short text
StartAICalls ==
    /\ pc = "metrics"
    /\ calls' = [d \in Derivations |->
                   IF d = "title" /\ TitleNeedsNoCall(analyzedSegments)
                   THEN [state |-> "fulfilled", outcome |-> "no_call",
                         value |-> UntitledSession]
                   ELSE [state |-> "pending", outcome |-> "none", value |-> <<>>]]
    /\ joined' = "pending"
    /\ pc' = "awaiting"
    /\ UNCHANGED <<client, tokens, pipelineVars, analysis, sinkVars>>

\* mutant: the highlights are derived from the issues of the same run
OnCallFailure_ChainedToIssues(d, failure) ==
    IF d = "issues"
    THEN [state |-> "rejected", outcome |-> failure, value |-> <<>>]
    ELSE IF d = "title"
    THEN [state |-> "fulfilled", outcome |-> failure,
          value |-> TitleOnCallFailure(analyzedSegments)]
    ELSE [state |-> "fulfilled", outcome |-> failure,
          value |-> HighlightsOnCallFailure(metrics, calls["issues"].value)]

\* the promise of derivation d after callOpenAI threw
OnCallFailure(d, failure) ==
    IF d = "issues"
    THEN [state |-> "rejected", outcome |-> failure, value |-> <<>>]
    ELSE IF d = "title"
    THEN [state |-> "fulfilled", outcome |-> failure,
          value |-> TitleOnCallFailure(analyzedSegments)]
    ELSE [state |-> "fulfilled", outcome |-> failure,
          value |-> HighlightsOnCallFailure(metrics, <<>>)]

\* the promise of derivation d after callOpenAI returned content
OnCallContent(d, content) ==
    IF d = "issues"
    THEN [state |-> "fulfilled", outcome |-> content.form,
          value |-> IssuesFromData(IssuesData(content), conversationId)]
    ELSE IF d = "title"
    THEN [state |-> "fulfilled", outcome |-> content.form,
          value |-> TitleFromContent(content, analyzedSegments)]
    ELSE [state |-> "fulfilled", outcome |-> content.form,
          value |-> HighlightsFromContent(content, metrics, <<>>)]

\* the model call of derivation d fails: callOpenAI throws
CallFails(d) ==
    /\ pc = "awaiting"
    /\ calls[d].state = "pending"
    /\ \E failure \in CallFailures :
         LET cs == [calls EXCEPT ![d] = OnCallFailure(d, failure)]
         IN  /\ calls' = cs
             /\ JoinReaction(cs, failure)
    /\ UNCHANGED <<client, tokens, pipelineVars, storage, uploads, convStatus>>

\* the model call of derivation d returns a message content
CallReturns(d) ==
    /\ pc = "awaiting"
    /\ calls[d].state = "pending"
    /\ \E content \in Contents(d) :
         LET cs == [calls EXCEPT ![d] = OnCallContent(d, content)]
         IN  /\ calls' = cs
             /\ JoinReaction(cs, "none")
    /\ UNCHANGED <<client, tokens, pipelineVars, storage, uploads, convStatus>>

\* 7) first upload of <conversationId>-analysis.json; an upload error is thrown
Upload ==
    /\ pc = "joined"
    /\ \/ /\ storage' = [key |-> conversationId, body |-> analysis, timing |-> "initial"]
          /\ uploads' = Append(uploads, "ok")
          /\ pc' = "uploaded"
          /\ response' = response
       \/ /\ storage' = storage
          /\ uploads' = Append(uploads, "error")
          /\ pc' = "failed"
          /\ response' = [status |-> 500, error |-> "upload_error"]
    /\ UNCHANGED <<client, tokens, pipelineVars, enrichVars, convStatus>>

\* mutant: the result is written once, the second upload is not made
ReUpload_Skipped ==
    /\ pc = "uploaded"
    /\ pc' = "reuploaded"
    /\ UNCHANGED <<client, tokens, pipelineVars, enrichVars, storage, uploads, convStatus, response>>

\* re-upload with the final timing; its result is not looked at
ReUpload ==
    /\ pc = "uploaded"
    /\ \/ /\ storage' = [key |-> conversationId, body |-> analysis, timing |-> "final"]
          /\ uploads' = Append(uploads, "ok")
       \/ /\ storage' = storage
          /\ uploads' = Append(uploads, "error")
    /\ pc' = "reuploaded"
    /\ UNCHANGED <<client, tokens, pipelineVars, enrichVars, convStatus, response>>

\* upsert of status 'finished' (an error is only logged), then the 200 answer
UpdateStatus ==
    /\ pc = "reuploaded"
    /\ \/ convStatus' = "finished"
       \/ convStatus' = convStatus
    /\ pc' = "done"
    /\ response' = [status |-> 200, error |-> "none"]
    /\ UNCHANGED <<client, tokens, pipelineVars, enrichVars, storage, uploads>>

\* the words of the segmentation runs
InsertSegToken == InsertToken(MaxTokens, SegStarts, SegGaps, SegDurs, SegTexts)

\* the words of the full runs
InsertRunToken == InsertToken(MaxRunTokens, RunStarts, RunGaps, RunDurs, RunTexts)

\* the words of the punctuation runs
InsertPunctToken ==
    InsertToken(MaxPunctTokens, PunctStarts, PunctGaps, PunctDurs, PunctTexts)

\* the first step of a run: the fetched tokens are punctuated
NextPunct ==
    \/ InsertPunctToken
    \/ FetchTokens
    \/ Punctuate

SpecPunct == Init /\ [][NextPunct]_vars

\* the words of the tagging runs
InsertTagToken == InsertToken(MaxTagTokens, TagStarts, TagGaps, TagDurs, TagTexts)

\* a run up to the Tagger
NextTag ==
    \/ InsertTagToken
    \/ FetchTokens
    \/ Punctuate
    \/ Segmentation
    \/ AnalyzeSegments

SpecTag == Init /\ [][NextTag]_vars

\* the words of the runs with words that begin like a hedging phrase
InsertHedgeToken ==
    InsertToken(MaxHedgeTokens, HedgeStarts, HedgeGaps, HedgeDurs, HedgeTexts)

\* a run up to the Tagger
NextHedge ==
    \/ InsertHedgeToken
    \/ FetchTokens
    \/ Punctuate
    \/ Segmentation
    \/ AnalyzeSegments

SpecHedge == Init /\ [][NextHedge]_vars

\* the words of the runs with long pauses
InsertPauseToken ==
    InsertToken(MaxPauseTokens, PauseStarts, PauseGaps, PauseDurs, PauseTexts)

\* a run up to the Metrics Calculator
NextPause ==
    \/ InsertPauseToken
    \/ FetchTokens
    \/ Punctuate
    \/ Segmentation
    \/ AnalyzeSegments
    \/ InterleaveAndMetrics

SpecPause == Init /\ [][NextPause]_vars

\* the words of the runs whose highlights fall back to the local rules
InsertFallbackToken ==
    InsertToken(MaxFallbackTokens, FallbackStarts, FallbackGaps, FallbackDurs,
                FallbackTexts)

\* a run up to the join of the three derivations
NextFallback ==
    \/ InsertFallbackToken
    \/ FetchTokens
    \/ Punctuate
    \/ Segmentation
    \/ AnalyzeSegments
    \/ InterleaveAndMetrics
    \/ StartAICalls
    \/ \E d \in Derivations : CallFails(d)
    \/ \E d \in Derivations : CallReturns(d)

SpecFallback == Init /\ [][NextFallback]_vars

\* upload-audio for an evenly spoken recording: every word has the duration
\* of the first and follows its predecessor after the same gap
InsertPaceToken ==
    /\ pc = "recording"
    /\ Len(tokens) < MaxPaceTokens
    /\ \E d \in PaceDurs, g \in PaceGaps :
          /\ Len(tokens) >= 1 => d = tokens[1].end_ms - tokens[1].start_ms
          /\ Len(tokens) >= 2 => g = tokens[2].start_ms - tokens[1].end_ms
          /\ Len(tokens) = 0 => g = 0
          /\ tokens' = Append(tokens,
                 TokenRow(Len(tokens) + 1,
                          IF Len(tokens) = 0 THEN 0 ELSE tokens[Len(tokens)].end_ms + g,
                          d, PaceText))
    /\ UNCHANGED <<client, pc, pipelineVars, enrichVars, sinkVars>>

\* a run up to the Tagger on an evenly spoken recording
NextPace ==
    \/ InsertPaceToken
    \/ FetchTokens
    \/ Punctuate
    \/ Segmentation
    \/ AnalyzeSegments

SpecPace == Init /\ [][NextPace]_vars

\* the words of the metrics runs
InsertMetricToken ==
    InsertToken(MaxMetricTokens, MetricStarts, MetricGaps, MetricDurs, MetricTexts)

\* a run up to the Metrics Calculator
NextMetrics ==
    \/ InsertMetricToken
    \/ FetchTokens
    \/ Punctuate
    \/ Segmentation
    \/ AnalyzeSegments
    \/ InterleaveAndMetrics

SpecMetrics == Init /\ [][NextMetrics]_vars

\* the words of the runs around the worked example
InsertExampleToken ==
    InsertToken(MaxExampleTokens, ExampleStarts, ExampleGaps, ExampleDurs, ExampleTexts)

\* a run up to the Metrics Calculator
NextExample ==
    \/ InsertExampleToken
    \/ FetchTokens
    \/ Punctuate
    \/ Segmentation
    \/ AnalyzeSegments
    \/ InterleaveAndMetrics

SpecExample == Init /\ [][NextExample]_vars

\* the synchronous part of a run: segmentation, tagging, assembly, metrics
NextSeg ==
    \/ InsertSegToken
    \/ FetchTokens
    \/ Punctuate
    \/ Segmentation
    \/ AnalyzeSegments
    \/ InterleaveAndMetrics

SpecSeg == Init /\ [][NextSeg]_vars

\* a whole run of the handler
Next ==
    \/ InsertRunToken
    \/ FetchTokens
    \/ FetchNoTokens
    \/ FetchFails
    \/ Punctuate
    \/ Segmentation
    \/ AnalyzeSegments
    \/ InterleaveAndMetrics
    \/ StartAICalls
    \/ \E d \in Derivations : CallFails(d)
    \/ \E d \in Derivations : CallReturns(d)
    \/ Upload
    \/ ReUpload
    \/ UpdateStatus

Spec == Init /\ [][Next]_vars

(***************************************************************************)
(* The recording client (src/hooks/useRecordingService.ts), the audio      *)
(* uploads of another client, and the analysis run the client triggers     *)
(***************************************************************************)
\* the conversation of another client that uploads audio at the same time
otherConversationId == "c2"

\* the client before startRecording
IdleClient ==
    [pc |-> "idle", conversationIdRef |-> "null", isRecording |-> FALSE,
     startFailed |-> FALSE, triggered |-> FALSE]

\* bounds of the runs with the recording client
MaxClientTokens == 2
ClientDurs  == {400}
ClientTexts == { <<"u","m">>, <<"o","k">> }

\* no row in the conversations table, no token, the client is idle
InitClient ==
    /\ client = IdleClient
    /\ tokens = <<>>
    /\ pc = "recording"
    /\ punctuatedTokens = <<>>
    /\ pauseBlocks = <<>>
    /\ pauses = <<>>
    /\ contentSegmentsPerBlock = <<>>
    /\ analyzedSegments = <<>>
    /\ allSegments = <<>>
    /\ metrics = NoMetrics
    /\ calls = [d \in Derivations |-> NoCall]
    /\ joined = "none"
    /\ analysis = NoAnalysis
    /\ storage = NoObject
    /\ uploads = <<>>
    /\ convStatus = "absent"
    /\ response = NoResponse

\* updateConversationStatus(conversationId, status): the request upserts the
\* row, or fails, which the client only logs
StatusAfterRequest(status) == {status, convStatus}

\* startRecording up to the request for the microphone: the id is generated
\* and kept in conversationIdRef, isRecordingRef is set, the status
\* 'recording' is sent
StartRecording ==
    /\ client.pc = "idle"
    /\ client' = [client EXCEPT !.pc = "announced",
                                !.conversationIdRef = conversationId,
                                !.isRecording = TRUE]
    /\ convStatus' \in StatusAfterRequest("recording")
    /\ UNCHANGED <<pc, tokens, pipelineVars, enrichVars, storage, uploads, response>>

\* getUserMedia resolves: the audio processing is set up
MicrophoneGranted ==
    /\ client.pc = "announced"
    /\ client' = [client EXCEPT !.pc = "recording"]
    /\ UNCHANGED <<pc, tokens, pipelineVars, enrichVars, sinkVars>>

\* getUserMedia rejects (NotAllowedError, NotFoundError): the catch block
\* clears isRecordingRef and the isRecording state and rethrows
MicrophoneRefused ==
    /\ client.pc = "announced"
    /\ client' = [client EXCEPT !.pc = "start_failed",
                                !.isRecording = FALSE,
                                !.startFailed = TRUE]
    /\ UNCHANGED <<pc, tokens, pipelineVars, enrichVars, sinkVars>>

\* the rows of one conversation, in the order of the table
RowsOf(rows, conv) == SelectSeq(rows, LAMBDA r : r.conversation_id = conv)

\* upload-audio for conversation conv: one transcribed word is inserted; the
\* table is kept in the order of created_at
InsertRowFor(conv) ==
    /\ Len(tokens) < MaxClientTokens
    /\ \E d \in ClientDurs, t \in ClientTexts :
          LET mine  == RowsOf(tokens, conv)
              start == IF Len(mine) = 0 THEN 0 ELSE mine[Len(mine)].end_ms
          IN  tokens' = Append(tokens,
                  [TokenRow(Len(tokens) + 1, start, d, t) EXCEPT !.conversation_id = conv])

\* uploadAudioChunk of the recording client
UploadAudioChunk ==
    /\ client.pc = "recording"
    /\ InsertRowFor(client.conversationIdRef)
    /\ UNCHANGED <<client, pc, pipelineVars, enrichVars, sinkVars>>

\* an audio chunk of the other client is transcribed and stored
OtherClientUploads ==
    /\ InsertRowFor(otherConversationId)
    /\ UNCHANGED <<client, pc, pipelineVars, enrichVars, sinkVars>>

\* stopRecording up to the trigger: nothing is done without a conversation
\* id; else recording is stopped and the status 'processing' is sent
StopRecording ==
    /\ client.pc \in {"recording", "start_failed"}
    /\ client.conversationIdRef # "null"
    /\ client' = [client EXCEPT !.pc = "processing", !.isRecording = FALSE]
    /\ convStatus' \in StatusAfterRequest("processing")
    /\ UNCHANGED <<pc, tokens, pipelineVars, enrichVars, storage, uploads, response>>

\* the rule-based pipeline on the fetched rows: segments and metrics
PipelineOf(rows, conv) ==
    LET punct    == addPunctuationToTokens(rows)
        r        == splitIntoSegments(punct)
        perBlock == [b \in 1..Len(r.segments) |->
                        splitBySentences(r.segments[b], maxSentencesPerSegment)]
        flat     == Flatten(perBlock)
        analyzed == [g \in 1..Len(flat) |-> analyzeSegment(flat[g], g - 1, conv)]
    IN  [punctuated |-> punct,
         analyzed   |-> analyzed,
         segments   |-> InterleaveFrom(1, 0, perBlock, analyzed, r.pauses),
         metrics    |-> calculateMetrics(analyzed, r.pauses)]

\* the AnalysisResults a run on the rows can assemble, one for every way the
\* three derivations can settle without failing the run
ResultsOf(rows, conv) ==
    LET p      == PipelineOf(rows, conv)
        titles == IF TitleNeedsNoCall(p.analyzed) THEN {UntitledSession}
                  ELSE {TitleFromContent(c, p.analyzed) : c \in TitleContents}
                           \cup {TitleOnCallFailure(p.analyzed)}
        issues == {IssuesFromData(IssuesData(c), conv) : c \in IssuesContents}
        highs  == {HighlightsFromContent(c, p.metrics, <<>>) : c \in HighlightsContents}
                      \cup {HighlightsOnCallFailure(p.metrics, <<>>)}
    IN  { [title |-> t, segments |-> p.segments, metrics |-> p.metrics,
           issues |-> i, coachingHighlights |-> h] :
              t \in titles, i \in issues, h \in highs }

\* triggerCleverService: POST {name: 'Functions'}, awaited; the request names
\* no conversation. The whole run of the handler: it takes the conversation
\* of the row created last, reads the rows of that conversation, analyses
\* them, uploads the result under that id, uploads it again, and sets the
\* status of that conversation to 'finished'; it answers 500 when there is
\* no row, when a query fails, when the issues call fails and when the first
\* upload fails
TriggerCleverService ==
    /\ client.pc = "processing"
    /\ client' = [client EXCEPT !.pc = "triggered", !.triggered = TRUE]
    /\ \/ /\ response' = [status |-> 500, error |-> "No tokens found"]
          /\ UNCHANGED <<punctuatedTokens, analysis, storage, uploads, convStatus>>
       \/ /\ Len(tokens) > 0
          /\ LET conv == tokens[Len(tokens)].conversation_id
                 rows == RowsOf(tokens, conv)
             IN  /\ punctuatedTokens' = PipelineOf(rows, conv).punctuated
                 /\ \/ /\ \E failure \in CallFailures :
                             response' = [status |-> 500, error |-> failure]
                       /\ UNCHANGED <<analysis, storage, uploads, convStatus>>
                    \/ /\ \E a \in ResultsOf(rows, conv) : analysis' = a
                       /\ \/ /\ uploads' = Append(uploads, "error")
                             /\ response' = [status |-> 500, error |-> "upload_error"]
                             /\ UNCHANGED <<storage, convStatus>>
                          \/ /\ \E second \in {"ok", "error"} :
                                   /\ uploads' = uploads \o <<"ok", second>>
                                   /\ storage' =
                                          [key    |-> conv,
                                           body   |-> analysis',
                                           timing |-> IF second = "ok" THEN "final"
                                                      ELSE "initial"]
                             /\ convStatus' \in
                                    IF conv = client.conversationIdRef
                                    THEN StatusAfterRequest("finished")
                                    ELSE {convStatus}
                             /\ response' = [status |-> 200, error |-> "none"]
    /\ UNCHANGED <<pc, tokens, pauseBlocks, pauses, contentSegmentsPerBlock,
                   analyzedSegments, allSegments, metrics, calls, joined>>

\* the timer set by stopRecording fires one second after the trigger has
\* returned: the status 'finished' is sent
FinishedTimer ==
    /\ client.pc = "triggered"
    /\ client' = [client EXCEPT !.pc = "stopped"]
    /\ convStatus' \in StatusAfterRequest("finished")
    /\ UNCHANGED <<pc, tokens, pipelineVars, enrichVars, storage, uploads, response>>

\* one session of the recording client, next to the uploads of another client
NextClient ==
    \/ StartRecording
    \/ MicrophoneGranted
    \/ MicrophoneRefused
    \/ UploadAudioChunk
    \/ OtherClientUploads
    \/ StopRecording
    \/ TriggerCleverService
    \/ FinishedTimer

SpecClient == InitClient /\ [][NextClient]_vars

(***************************************************************************)
(* The model-based pipeline (backendEdgefunctions/clever-service.ts): the  *)
(* issues are awaited first, then the highlights are derived from them     *)
(***************************************************************************)
\* issues.sort((a, b) => order[a.severity] - order[b.severity]): the sort is
\* stable and is made in place
SortBySeverity(issues) ==
    SelectSeq(issues, LAMBDA i : SeverityOrder(i.severity) = 0)
        \o SelectSeq(issues, LAMBDA i : SeverityOrder(i.severity) = 1)
        \o SelectSeq(issues, LAMBDA i : SeverityOrder(i.severity) = 2)

\* topIssue.kind.replace('_', ' ') on the kinds named in the prompt
KindTitle(kind) ==
    IF kind = "filler_cluster" THEN "filler cluster"
    ELSE IF kind = "fast_segment" THEN "fast segment"
    ELSE IF kind = "complex_sentence" THEN "complex sentence"
    ELSE kind

\* generateFallbackHighlights of the model-based pipeline: the highlights it
\* returns and the issues array as the call leaves it
Backend_generateFallbackHighlights(m, issues) ==
    LET pace ==
            IF m.avgWpm >= 140 /\ m.avgWpm <= 165
            THEN << [type |-> "strength", title |-> "Good speaking pace",
                     severity |-> "none"] >>
            ELSE IF m.avgWpm > 165
            THEN << [type |-> "improvement", title |-> "Slow down your pace",
                     severity |-> IF m.avgWpm > 180 THEN "high" ELSE "medium"] >>
            ELSE <<>>
        filler ==
            IF m.fillerPerMinuteTenths < 20
            THEN << [type |-> "strength", title |-> "Minimal filler words",
                     severity |-> "none"] >>
            ELSE IF m.fillerPerMinuteTenths > 30
            THEN << [type |-> "improvement", title |-> "Reduce filler words",
                     severity |-> IF m.fillerPerMinuteTenths > 50 THEN "high" ELSE "medium"] >>
            ELSE <<>>
        both == pace \o filler
    IN  IF Len(SelectSeq(both, LAMBDA h : h.type = "improvement")) = 0 /\ Len(issues) > 0
        THEN [highlights |-> Append(both,
                                 [type     |-> "improvement",
                                  title    |-> KindTitle(SortBySeverity(issues)[1].kind),
                                  severity |-> SortBySeverity(issues)[1].severity]),
              issues     |-> SortBySeverity(issues)]
        ELSE [highlights |-> both, issues |-> issues]

\* generateCoachingHighlights of the model-based pipeline for the content of
\* a model answer
Backend_generateCoachingHighlights(content, m, issues) ==
    IF content.form = "highlights"
    THEN [highlights |-> [k \in 1..Len(content.highlights) |->
                             MapHighlight(content.highlights[k])],
          issues     |-> issues]
    ELSE Backend_generateFallbackHighlights(m, issues)

\* the metrics of the runs of the model-based pipeline
BackendWpms == {100, 150, 170, 190}
BackendFillerTenths == {0, 25, 40}

\* the issue arrays the model returns in these runs
BackendIssuesItems ==
    { <<>>,
      << [kind |-> "fast_segment", severity |-> "low", segmentIndices |-> <<0>>],
         [kind |-> "filler_cluster", severity |-> "high", segmentIndices |-> <<>>] >>,
      << [kind |-> "filler_cluster", severity |-> "high", segmentIndices |-> <<>>],
         [kind |-> "hedging", severity |-> "", segmentIndices |-> <<>>] >>,
      << [kind |-> "structure", severity |-> "medium", segmentIndices |-> <<>>],
         [kind |-> "hedging", severity |-> "low", segmentIndices |-> <<>>],
         [kind |-> "", severity |-> "medium", segmentIndices |-> <<1>>] >> }

\* the handler of the model-based pipeline after calculateMetrics' inputs are
\* there: segmentation and tagging are done, the issues call is in flight
InitBackend ==
    /\ client = RecordingClient
    /\ tokens = <<>>
    /\ pc = "backend_issues"
    /\ punctuatedTokens = <<>>
    /\ pauseBlocks = <<>>
    /\ pauses = <<>>
    /\ contentSegmentsPerBlock = <<>>
    /\ analyzedSegments = <<>>
    /\ allSegments = <<>>
    /\ \E w \in BackendWpms, f \in BackendFillerTenths :
           metrics = [NoMetrics EXCEPT !.avgWpm = w, !.fillerPerMinuteTenths = f]
    /\ calls = [d \in Derivations |->
                  IF d = "issues"
                  THEN [state |-> "pending", outcome |-> "none", value |-> <<>>]
                  ELSE NoCall]
    /\ joined = "none"
    /\ analysis = NoAnalysis
    /\ storage = NoObject
    /\ uploads = <<>>
    /\ convStatus = "recording"
    /\ response = NoResponse

\* 4) const issues = await generateOverallIssues(...): the answer is mapped
\* to issues, then generateCoachingHighlights is called with them
BackendIssuesReturn ==
    /\ pc = "backend_issues"
    /\ \E items \in BackendIssuesItems :
          calls' = [calls EXCEPT
                       !["issues"] = [state |-> "fulfilled", outcome |-> "array",
                                      value |-> IssuesFromData(items, conversationId)],
                       !["highlights"] = [state |-> "pending", outcome |-> "none",
                                          value |-> <<>>]]
    /\ pc' = "backend_highlights"
    /\ UNCHANGED <<client, tokens, pipelineVars, joined, analysis, sinkVars>>

\* callOpenAI throws inside generateOverallIssues or generateCoachingHighlights:
\* neither catches it, the handler answers 500
BackendCallFails ==
    /\ pc \in {"backend_issues", "backend_highlights"}
    /\ \E failure \in CallFailures :
          /\ calls' = [calls EXCEPT
                          ![IF pc = "backend_issues" THEN "issues" ELSE "highlights"] =
                              [state |-> "rejected", outcome |-> failure, value |-> <<>>]]
          /\ response' = [status |-> 500, error |-> failure]
    /\ pc' = "failed"
    /\ UNCHANGED <<client, tokens, pipelineVars, joined, analysis, storage, uploads, convStatus>>

\* 5) const coachingHighlights = await generateCoachingHighlights(speechSegments,
\* metrics, issues, conversationId), then analysis = {segments, metrics,
\* issues, coachingHighlights} with the issues array as the call left it
BackendHighlightsReturn ==
    /\ pc = "backend_highlights"
    /\ \E content \in HighlightsContents :
          LET r == Backend_generateCoachingHighlights(content, metrics,
                                                      calls["issues"].value)
          IN  /\ calls' = [calls EXCEPT
                              !["issues"].value = r.issues,
                              !["highlights"] = [state |-> "fulfilled",
                                                 outcome |-> content.form,
                                                 value |-> r.highlights]]
              /\ analysis' = [NoAnalysis EXCEPT
                                 !.segments = allSegments,
                                 !.metrics = metrics,
                                 !.issues = r.issues,
                                 !.coachingHighlights = r.highlights]
    /\ pc' = "backend_assembled"
    /\ UNCHANGED <<client, tokens, pipelineVars, joined, sinkVars>>

\* the enrichment of the model-based pipeline
NextBackend ==
    \/ BackendIssuesReturn
    \/ BackendCallFails
    \/ BackendHighlightsReturn

SpecBackend == InitBackend /\ [][NextBackend]_vars

(***************************************************************************)
(* The content split of the model-based pipeline: splitSegmentByContent    *)
(***************************************************************************)
\* a startIndex or endIndex of the response that is no finite number (the
\* field is missing, null is not meant: Math.min(n, undefined) is NaN)
NotANumber == 0 - 1000000

\* (text.match(/[.!?]+/g) || []).length on the texts joined by ' ': the runs
\* of sentence-ending characters
SentenceEnderChars == {".", "!", "?"}
EnderRuns(text) ==
    Cardinality({ i \in 1..Len(text) :
                    /\ text[i] \in SentenceEnderChars
                    /\ (i = 1 \/ text[i - 1] \notin SentenceEnderChars) })
sentenceEnders(toks) == EnderRuns(JoinTexts(toks))

\* the block is returned whole when it has under 15 tokens or at most two
\* sentence enders: the model is not asked
SplitNeedsNoCall(segmentTokens) ==
    Len(segmentTokens) < 15 \/ sentenceEnders(segmentTokens) <= 2

\* Math.max(0, Math.min(segmentTokens.length - 1, index))
ClampIndex(n, index) ==
    IF index = NotANumber THEN NotANumber
    ELSE IF index > n - 1 THEN (IF n - 1 < 0 THEN 0 ELSE n - 1)
    ELSE IF index < 0 THEN 0
    ELSE index

\* .sort((a, b) => a.start - b.start), stable
RECURSIVE SortByStart(_)
SortByStart(ranges) ==
    IF Len(ranges) = 0 THEN <<>>
    ELSE LET low == CHOOSE v \in {ranges[i].start : i \in 1..Len(ranges)} :
                        \A i \in 1..Len(ranges) : v <= ranges[i].start
             k   == CHOOSE i \in 1..Len(ranges) :
                        /\ ranges[i].start = low
                        /\ \A j \in 1..(i - 1) : ranges[j].start # low
         IN  <<ranges[k]>> \o
                 SortByStart(SubSeq(ranges, 1, k - 1) \o SubSeq(ranges, k + 1, Len(ranges)))

\* the merge loop: a range that overlaps or touches the last merged one
\* extends it, any other range is pushed
RECURSIVE MergeRanges(_, _)
MergeRanges(merged, rest) ==
    IF Len(rest) = 0 THEN merged
    ELSE LET r    == Head(rest)
             last == merged[Len(merged)]
         IN  IF Len(merged) = 0 THEN MergeRanges(<<r>>, Tail(rest))
             ELSE IF r.start <= last.end + 1
                  THEN MergeRanges(
                           [merged EXCEPT ![Len(merged)].end =
                               IF r.end > last.end THEN r.end ELSE last.end],
                           Tail(rest))
                  ELSE MergeRanges(Append(merged, r), Tail(rest))

\* splitSegmentByContent once the model has answered with content: text that
\* is no JSON and a missing or empty segments list give the whole block;
\* else the ranges are clamped, filtered, sorted and merged, and the tokens
\* of every merged range are sliced out
splitSegmentByContent(segmentTokens, content) ==
    IF content.form # "object" \/ Len(content.segments) = 0 THEN <<segmentTokens>>
    ELSE LET n       == Len(segmentTokens)
             clamped == [i \in 1..Len(content.segments) |->
                            [start |-> ClampIndex(n, content.segments[i].startIndex),
                             end   |-> ClampIndex(n, content.segments[i].endIndex)]]
             validRanges ==
                 SortByStart(SelectSeq(clamped, LAMBDA r :
                     /\ r.start # NotANumber
                     /\ r.end # NotANumber
                     /\ r.start <= r.end))
             merged  == MergeRanges(<<>>, validRanges)
         IN  IF Len(validRanges) = 0 THEN <<segmentTokens>>
             ELSE [k \in 1..Len(merged) |->
                      SubSeq(segmentTokens, merged[k].start + 1, merged[k].end + 1)]

\* the handler's fallback: one segment for a block of more than 30 tokens
\* with more than 4 sentence enders is split by sentences instead
ContentSegmentsOfBlock(blockTokens, contentSegments) ==
    IF /\ Len(contentSegments) = 1
       /\ Len(blockTokens) > 30
       /\ sentenceEnders(blockTokens) > 4
    THEN splitBySentences(blockTokens, 4)
    ELSE contentSegments

\* the blocks of the runs: n words, every period-th one ends a sentence
SplitBlockLens    == {14, 15, 16, 31}
SplitBlockPeriods == {2, 8}
SplitBlock(n, period) ==
    [i \in 1..n |->
        TokenRow(i, (i - 1) * 400, 400,
                 IF i % period = 0 THEN <<"o", "k", ".">> ELSE <<"o", "k">>)]

\* the contents the model can answer with: text that is no JSON, or an
\* object with up to two segment definitions of any indices
SegmentIndexValues == {NotANumber, 0 - 1, 0, 6, 7, 10, 14, 15, 40}
ContentSegmentDefs == [startIndex : SegmentIndexValues, endIndex : SegmentIndexValues]
SplitContents ==
    {[form |-> "text", segments |-> <<>>], [form |-> "object", segments |-> <<>>]}
        \cup {[form |-> "object", segments |-> <<a>>] : a \in ContentSegmentDefs}
        \cup {[form |-> "object", segments |-> <<a, b>>] :
                 a \in ContentSegmentDefs, b \in ContentSegmentDefs}

\* the handler has one pause block before it and is about to split it
InitSplit ==
    /\ client = RecordingClient
    /\ \E n \in SplitBlockLens, period \in SplitBlockPeriods :
          /\ tokens = SplitBlock(n, period)
          /\ punctuatedTokens = SplitBlock(n, period)
          /\ pauseBlocks = <<SplitBlock(n, period)>>
    /\ pc = "backend_content"
    /\ pauses = <<>>
    /\ contentSegmentsPerBlock = <<>>
    /\ analyzedSegments = <<>>
    /\ allSegments = <<>>
    /\ metrics = NoMetrics
    /\ calls = [d \in Derivations |-> NoCall]
    /\ joined = "none"
    /\ analysis = NoAnalysis
    /\ storage = NoObject
    /\ uploads = <<>>
    /\ convStatus = "processing"
    /\ response = NoResponse

\* a short block is kept whole without a call
SplitWithoutCall ==
    /\ pc = "backend_content"
    /\ SplitNeedsNoCall(pauseBlocks[1])
    /\ contentSegmentsPerBlock' =
           <<ContentSegmentsOfBlock(pauseBlocks[1], <<pauseBlocks[1]>>)>>
    /\ pc' = "backend_split"
    /\ UNCHANGED <<client, tokens, punctuatedTokens, pauseBlocks, pauses,
                   analyzedSegments, allSegments, metrics, enrichVars, sinkVars>>

\* callOpenAI throws; nothing catches it before the handler's catch
SplitCallFails ==
    /\ pc = "backend_content"
    /\ ~SplitNeedsNoCall(pauseBlocks[1])
    /\ \E failure \in CallFailures :
          response' = [status |-> 500, error |-> failure]
    /\ pc' = "failed"
    /\ UNCHANGED <<client, tokens, pipelineVars, enrichVars, storage, uploads, convStatus>>

\* the model answers; the block is split by its segment definitions
SplitCallReturns ==
    /\ pc = "backend_content"
    /\ ~SplitNeedsNoCall(pauseBlocks[1])
    /\ \E content \in SplitContents :
          contentSegmentsPerBlock' =
              <<ContentSegmentsOfBlock(pauseBlocks[1],
                    splitSegmentByContent(pauseBlocks[1], content))>>
    /\ pc' = "backend_split"
    /\ UNCHANGED <<client, tokens, punctuatedTokens, pauseBlocks, pauses,
                   analyzedSegments, allSegments, metrics, enrichVars, sinkVars>>

NextSplit ==
    \/ SplitWithoutCall
    \/ SplitCallFails
    \/ SplitCallReturns

SpecSplit == InitSplit /\ [][NextSplit]_vars

\* the steps the handler takes by itself: local computation and the requests
\* to the database and the storage, which answer
HandlerStep ==
    \/ FetchTokens
    \/ FetchNoTokens
    \/ FetchFails
    \/ Punctuate
    \/ Segmentation
    \/ AnalyzeSegments
    \/ InterleaveAndMetrics
    \/ StartAICalls
    \/ Upload
    \/ ReUpload
    \/ UpdateStatus

\* the words of the runs checked for termination
InsertLiveToken == InsertToken(MaxLiveTokens, LiveStarts, LiveGaps, LiveDurs, LiveTexts)

\* a whole run of the handler on a short recording
NextLive ==
    \/ InsertLiveToken
    \/ FetchTokens
    \/ FetchNoTokens
    \/ FetchFails
    \/ Punctuate
    \/ Segmentation
    \/ AnalyzeSegments
    \/ InterleaveAndMetrics
    \/ StartAICalls
    \/ \E d \in Derivations : CallFails(d)
    \/ \E d \in Derivations : CallReturns(d)
    \/ Upload
    \/ ReUpload
    \/ UpdateStatus

\* the runtime keeps running the handler, and the database and the storage
\* answer; callOpenAI awaits fetch without a timer, so nothing obliges a
\* model call to settle
SpecLive == Init /\ [][NextLive]_vars /\ WF_vars(HandlerStep)

\* the values update-conversation-status accepts for status
ValidStatuses == {"recording", "processing", "finished"}

\* update-conversation-status: a request with a valid status upserts the row
\* of the conversation with that status, whatever the row holds
UpdateConversationStatus(status) ==
    /\ status \in ValidStatuses
    /\ convStatus' = status
    /\ UNCHANGED <<client, pc, tokens, pipelineVars, enrichVars, storage, uploads, response>>

\* a run of the handler on a short recording, with the status requests of the
\* recording client
NextStatus ==
    \/ NextLive
    \/ \E status \in ValidStatuses : UpdateConversationStatus(status)

SpecStatus == Init /\ [][NextStatus]_vars

-----------------------------------------------------------------------------
(* Properties of the segmentation and the assembly *)

\* Pass A and Pass B have run
Segmented == pc \notin {"recording", "fetched", "punctuated"}

\* allSegments and metrics are final
Assembled == pc \notin {"recording", "fetched", "punctuated", "segmented", "analyzed"}

First(seq) == seq[1]
Last(seq) == seq[Len(seq)]

SpeechOnly(segs) == SelectSeq(segs, LAMBDA sg : sg.kind = "speech")
PauseOnly(segs) == SelectSeq(segs, LAMBDA sg : sg.kind = "pause")

\* token i (a position of the input) is the last token of a block that is not the last block
ClosesBlock(i) ==
    \E b \in 1..(Len(pauseBlocks) - 1) : Last(pauseBlocks[b]).id = i

\* the block that holds token i
BlockOf(i) ==
    CHOOSE b \in 1..Len(pauseBlocks) :
        \E j \in 1..Len(pauseBlocks[b]) : pauseBlocks[b][j].id = i

\* duration from the start of the first token of i's block to the end of token i
RunningDuration(i) == tokens[i].end_ms - First(pauseBlocks[BlockOf(i)]).start_ms

GapAfter(i) == tokens[i + 1].start_ms - tokens[i].end_ms

\* the tokens of the speech segments of a segment list, concatenated
RECURSIVE SpeechTokens(_)
SpeechTokens(segs) ==
    IF Len(segs) = 0 THEN <<>>
    ELSE (IF Head(segs).kind = "speech"
          THEN [j \in 1..Len(Head(segs).tokens) |->
                   [id      |-> Head(segs).tokens[j].id,
                    startMs |-> Head(segs).tokens[j].startMs,
                    endMs   |-> Head(segs).tokens[j].endMs]]
          ELSE <<>>)
         \o SpeechTokens(Tail(segs))

\* C3 (as claimed): the segments of the result partition the timeline: the
\* first starts at the first token's start, the last ends at the last token's
\* end, and every segment ends where the next one starts.
C3_SegmentsPartitionTimeline ==
    Assembled =>
        /\ First(allSegments).startMs = First(tokens).start_ms
        /\ Last(allSegments).endMs = Last(tokens).end_ms
        /\ \A k \in 1..(Len(allSegments) - 1) :
               allSegments[k].endMs = allSegments[k + 1].startMs

\* C4: the tokens of the speech segments of the result, taken in list order,
\* are exactly the input tokens (same ids, same times, same order), and
\* metrics.totalWords is the number of input tokens.
C4_TokensPreserved ==
    Assembled =>
        /\ SpeechTokens(allSegments) =
               [i \in 1..Len(tokens) |->
                   [id      |-> tokens[i].id,
                    startMs |-> tokens[i].start_ms,
                    endMs   |-> tokens[i].end_ms]]
        /\ metrics.totalWords = Len(tokens)

\* a run with a pause and a block that the sentence split cut in two
C4_Witness ==
    /\ Assembled
    /\ Len(pauses) >= 1
    /\ \E b \in 1..Len(contentSegmentsPerBlock) : Len(contentSegmentsPerBlock[b]) >= 2

\* C5 (as claimed): no block of Pass A spans 25,000 ms or more from the start
\* of its first token to the end of its last token.
C5_BlockSpanBelowCap ==
    Segmented =>
        \A b \in 1..Len(pauseBlocks) :
            Last(pauseBlocks[b]).end_ms - First(pauseBlocks[b]).start_ms < 25000

\* C6 (as claimed): the segments of the result are strictly increasing by startMs.
C6_StrictlyIncreasingStart ==
    Assembled =>
        \A k \in 1..(Len(allSegments) - 1) :
            allSegments[k].startMs < allSegments[k + 1].startMs

\* C6 (amended): the segments of the result are non-decreasing by startMs.
C6_NonDecreasingStart ==
    Assembled =>
        \A k \in 1..(Len(allSegments) - 1) :
            allSegments[k].startMs <= allSegments[k + 1].startMs

\* a result with the zero-duration pause of a forced split between contiguous
\* tokens: the pause and the speech segment after it start at the same time
C6_Witness ==
    /\ Assembled
    /\ \E k \in 1..(Len(allSegments) - 1) :
           /\ allSegments[k].kind = "pause"
           /\ allSegments[k].startMs = allSegments[k].endMs
           /\ allSegments[k + 1].startMs = allSegments[k].startMs
           /\ k > 1
           /\ allSegments[k - 1].startMs < allSegments[k].startMs

\* C7: Pass A returns one pause per pair of adjacent blocks, and the k-th
\* pause runs from the end of the last token of block k to the start of the
\* first token of block k+1, with durationMs = end - start.
C7_OnePausePerBoundary ==
    Segmented =>
        /\ Len(pauses) = Len(pauseBlocks) - 1
        /\ \A k \in 1..Len(pauses) :
               k < Len(pauseBlocks) =>
                   /\ pauses[k].start = Last(pauseBlocks[k]).end_ms
                   /\ pauses[k].end = First(pauseBlocks[k + 1]).start_ms
                   /\ pauses[k].durationMs = pauses[k].end - pauses[k].start

\* Pass A made a forced split between contiguous tokens and a natural-gap split
C7_Witness ==
    /\ Segmented
    /\ \E k \in 1..Len(pauses) : pauses[k].durationMs = 0
    /\ \E k \in 1..Len(pauses) : pauses[k].durationMs >= 2000

\* C8: in the result the first and the last segment are speech, no two pause
\* segments are adjacent, there is one pause segment per pair of adjacent
\* Pass-A blocks, and every pause segment stands between the last token of a
\* block and the first token of the next block.
C8_PausesOnlyBetweenBlocks ==
    Assembled =>
        /\ First(allSegments).kind = "speech"
        /\ Last(allSegments).kind = "speech"
        /\ \A k \in 1..(Len(allSegments) - 1) :
               ~(allSegments[k].kind = "pause" /\ allSegments[k + 1].kind = "pause")
        /\ Len(PauseOnly(allSegments)) = Len(pauseBlocks) - 1
        /\ \A k \in 2..(Len(allSegments) - 1) :
               allSegments[k].kind = "pause" =>
                   \E b \in 1..(Len(pauseBlocks) - 1) :
                       /\ Last(allSegments[k - 1].tokens).id = Last(pauseBlocks[b]).id
                       /\ First(allSegments[k + 1].tokens).id = First(pauseBlocks[b + 1]).id

\* a result with a pause segment and two adjacent speech segments of one block
C8_Witness ==
    /\ Assembled
    /\ Len(PauseOnly(allSegments)) >= 1
    /\ \E k \in 1..(Len(allSegments) - 1) :
           /\ allSegments[k].kind = "speech"
           /\ allSegments[k + 1].kind = "speech"

\* the natural-pause rule, written with the numbers of the claim
NaturalPause(gap, running) ==
    gap >= 2000 \/ (gap >= 1000 /\ running >= 20000)

\* C9: after a token that is not the last, Pass A closes the block for a
\* natural pause exactly when the gap to the next token is >= 2000 ms, or
\* >= 1000 ms with a running block duration >= 20,000 ms; below the 25,000 ms
\* cap no other gap closes a block.
C9_AdaptivePauseThreshold ==
    Segmented =>
        \A i \in 1..(Len(tokens) - 1) :
            /\ NaturalPause(GapAfter(i), RunningDuration(i)) => ClosesBlock(i)
            /\ (ClosesBlock(i) /\ RunningDuration(i) < 25000)
                   => NaturalPause(GapAfter(i), RunningDuration(i))

\* one run in which a 1000 ms gap closes a block that has run for 20 s or
\* more and another 1000 ms gap does not close a shorter block
C9_Witness ==
    /\ Segmented
    /\ \E i \in 1..(Len(tokens) - 1) :
           /\ GapAfter(i) = 1000
           /\ RunningDuration(i) >= 20000
           /\ RunningDuration(i) < 25000
           /\ ClosesBlock(i)
    /\ \E i \in 1..(Len(tokens) - 1) :
           /\ GapAfter(i) = 1000
           /\ RunningDuration(i) < 20000
           /\ ~ClosesBlock(i)

\* C10: a token that is not the last and ends 25,000 ms or more after the
\* start of its block closes the block, whatever the gap; a pause record is
\* kept for that boundary and the next block starts at the following token.
C10_ForcedSplitAtCap ==
    Segmented =>
        \A i \in 1..(Len(tokens) - 1) :
            RunningDuration(i) >= 25000 =>
                \E b \in 1..(Len(pauseBlocks) - 1) :
                    /\ Last(pauseBlocks[b]).id = i
                    /\ First(pauseBlocks[b + 1]).id = i + 1
                    /\ b <= Len(pauses)
                    /\ pauses[b].start = tokens[i].end_ms
                    /\ pauses[b].end = tokens[i + 1].start_ms

\* a block closed at the cap although the gap after it is below every threshold
C10_Witness ==
    /\ Segmented
    /\ \E i \in 1..(Len(tokens) - 1) :
           /\ RunningDuration(i) >= 25000
           /\ GapAfter(i) < 1000
           /\ ClosesBlock(i)
           /\ \A j \in 1..i : GapAfter(j) < 1000

\* number of tokens of a token list whose text ends in . ! or ?
Terminators(toks) ==
    Cardinality({j \in 1..Len(toks) :
                    /\ Len(toks[j].text) > 0
                    /\ toks[j].text[Len(toks[j].text)] \in {".", "!", "?"}})

\* C11: the segments of Pass B are not empty and, joined, give back their
\* block; none holds more than 4 tokens that end in a sentence terminator; a
\* segment that holds 4 ends at the token that ends the 4th sentence; every
\* segment but the last of its block holds 4; the last one keeps the tokens
\* left over, however few sentences they make.
C11_AtMostFourSentences ==
    Segmented =>
        \A b \in 1..Len(pauseBlocks) :
            LET segs == contentSegmentsPerBlock[b]
            IN  /\ Flatten(segs) = pauseBlocks[b]
                /\ \A k \in 1..Len(segs) :
                       /\ Len(segs[k]) > 0
                       /\ Terminators(segs[k]) <= 4
                       /\ Terminators(segs[k]) = 4
                              => /\ Terminators(<<Last(segs[k])>>) = 1
                                 /\ Terminators(SubSeq(segs[k], 1, Len(segs[k]) - 1)) = 3
                       /\ k < Len(segs) => Terminators(segs[k]) = 4

\* a block cut after its 4th sentence, with a first segment that also holds
\* unterminated tokens and a last segment of fewer than 4 sentences
C11_Witness ==
    /\ Segmented
    /\ \E b \in 1..Len(pauseBlocks) :
           LET segs == contentSegmentsPerBlock[b]
           IN  /\ Len(segs) = 2
               /\ Len(segs[1]) > 4
               /\ Terminators(segs[2]) < 4

\* C12 (as claimed): a block of fewer than 15 tokens, or with at most 2
\* sentence terminators, is kept as one speech segment by Pass B.
C12_ShortBlockKeptWhole ==
    Segmented =>
        \A b \in 1..Len(pauseBlocks) :
            (Len(pauseBlocks[b]) < 15 \/ Terminators(pauseBlocks[b]) <= 2)
                => contentSegmentsPerBlock[b] = <<pauseBlocks[b]>>

-----------------------------------------------------------------------------
(* Properties of the Punctuator *)

Punctuated == pc = "punctuated"

PunctuationMarks == {".", ",", "!", "?", ";", ":"}
TerminalMarks == {".", "!", "?"}

LastChar(text) == text[Len(text)]

\* the interrogatives of the claim
Interrogatives ==
    { <<"w","h","a","t">>, <<"w","h","e","r","e">>, <<"w","h","e","n">>,
      <<"w","h","y">>, <<"h","o","w">>, <<"w","h","o">>, <<"w","h","i","c","h">> }

C14_LastTokenGetsPeriod ==
    Punctuated =>
        LET text == Last(tokens).text
            out  == Last(punctuatedTokens).text
        IN  IF Len(text) > 0 /\ LastChar(text) \in TerminalMarks
            THEN out = text
            ELSE out = text \o <<".">>

\* C14 (amended): the last token's text is unchanged when the input text
\* ended in one of . , ! ? ; : and is the input text followed by '.' otherwise.
C14_LastTokenPeriodUnlessPunctuated ==
    Punctuated =>
        LET text == Last(tokens).text
            out  == Last(punctuatedTokens).text
        IN  IF Len(text) > 0 /\ LastChar(text) \in PunctuationMarks
            THEN out = text
            ELSE out = text \o <<".">>

\* a run whose last token had no mark and got the period, after a token
\* whose text ended in a comma
C14_Witness ==
    /\ Punctuated
    /\ Len(tokens) >= 2
    /\ Last(tokens).text = <<"o","k">>
    /\ Last(punctuatedTokens).text = <<"o","k",".">>
    /\ tokens[Len(tokens) - 1].text = <<"n","o",",">>

\* C15: the Punctuator returns as many tokens as it was given, the i-th with
\* the id, conversation_id, start_ms and end_ms of the i-th input token, and
\* leaves the input tokens as they were.
C15_PunctuatorChangesOnlyText ==
    [][(pc = "fetched" /\ pc' = "punctuated") =>
          /\ tokens' = tokens
          /\ Len(punctuatedTokens') = Len(tokens)
          /\ \A i \in 1..Len(tokens) :
                 /\ punctuatedTokens'[i].id = tokens[i].id
                 /\ punctuatedTokens'[i].conversation_id = tokens[i].conversation_id
                 /\ punctuatedTokens'[i].start_ms = tokens[i].start_ms
                 /\ punctuatedTokens'[i].end_ms = tokens[i].end_ms]_vars

\* a punctuated run of three tokens in which a text was changed
C15_Witness ==
    /\ Punctuated
    /\ Len(tokens) = 3
    /\ \E i \in 1..Len(tokens) : punctuatedTokens[i].text # tokens[i].text

-----------------------------------------------------------------------------
(* Properties of the Tagger *)

\* the Tagger has run
Tagged == pc \notin {"recording", "fetched", "punctuated", "segmented"}

\* a text lower-cased and without punctuation marks
Bare(text) == SelectSeq(toLowerCase(text), LAMBDA c : c \notin PunctuationMarks)

\* the tags of one kind on a token or a segment
TagsOfKind(tags, kind) == SelectSeq(tags, LAMBDA t : t.kind = kind)

\* C16: a token carries exactly one filler tag, of severity medium, when its
\* text, lower-cased and stripped of punctuation, is a filler word, and no
\* filler tag otherwise.
C16_OneFillerTagPerFillerToken ==
    Tagged =>
        \A g \in 1..Len(analyzedSegments) :
            \A j \in 1..Len(analyzedSegments[g].tokens) :
                LET tok     == analyzedSegments[g].tokens[j]
                    fillers == TagsOfKind(tok.tags, "filler")
                IN  IF Bare(tok.text) \in FILLER_WORDS
                    THEN Len(fillers) = 1 /\ fillers[1].severity = "medium"
                    ELSE Len(fillers) = 0

\* a segment with the filler 'Like' inside, the filler 'um.' at its end and
\* a word that is no filler
C16_Witness ==
    /\ Tagged
    /\ \E g \in 1..Len(analyzedSegments) :
           LET toks == analyzedSegments[g].tokens
           IN  /\ \E j \in 1..Len(toks) :
                      /\ toks[j].text = <<"L","i","k","e">>
                      /\ Len(TagsOfKind(toks[j].tags, "filler")) = 1
               /\ toks[Len(toks)].text = <<"u","m",".">>
               /\ Len(TagsOfKind(toks[Len(toks)].tags, "filler")) = 1
               /\ \E j \in 1..Len(toks) :
                      /\ toks[j].text = <<"t","h","i","n","k">>
                      /\ Len(TagsOfKind(toks[j].tags, "filler")) = 0

\* the words of a phrase of the hedging list
PhraseWords(phrase) == SplitWords(phrase)

\* the phrase occurs in the token list toks from position j on
OccursAt(phrase, toks, j) ==
    LET words == PhraseWords(phrase)
    IN  /\ j + Len(words) - 1 <= Len(toks)
        /\ \A k \in 1..Len(words) : Bare(toks[j + k - 1].text) = words[k]

\* C17 (as claimed): every token of every occurrence of a phrase of the
\* hedging list in a segment carries a hedging tag, wherever the occurrence
\* lies, a one-word phrase on the last token included.
C17_EveryHedgeOccurrenceTagged ==
    Tagged =>
        \A g \in 1..Len(analyzedSegments) :
            LET toks == analyzedSegments[g].tokens
            IN  \A h \in 1..Len(HEDGING_STARTERS), j \in 1..Len(toks) :
                    OccursAt(HEDGING_STARTERS[h], toks, j) =>
                        \A k \in j..(j + Len(PhraseWords(HEDGING_STARTERS[h])) - 1) :
                            Len(TagsOfKind(toks[k].tags, "hedging")) >= 1

\* C31: a token carries a hedging tag only if it is one of the tokens of an
\* occurrence of a phrase of the hedging list matched on whole words, and
\* every phrase counted for a segment starts such an occurrence.
C31_HedgeTagsOnWholeWords ==
    Tagged =>
        \A g \in 1..Len(analyzedSegments) :
            LET toks == analyzedSegments[g].tokens
            IN  \A j \in 1..Len(toks) :
                    \A k \in 1..Len(toks[j].tags) :
                        toks[j].tags[k].kind = "hedging" =>
                            \E h \in 1..Len(HEDGING_STARTERS), st \in 1..j :
                                /\ OccursAt(HEDGING_STARTERS[h], toks, st)
                                /\ j <= st + Len(PhraseWords(HEDGING_STARTERS[h])) - 1

\* the pace tags of a segment
PaceTags(seg) == SelectSeq(seg.tags, LAMBDA t : t.kind \in {"slow", "fast", "very_fast"})

\* the span of a segment in ms, first token's start to last token's end
SpanMs(seg) == seg.tokens[Len(seg.tokens)].endMs - seg.tokens[1].startMs

\* wpm = tokenCount / (span / 1000) * 60 compared with a number of words per
\* minute, for a span > 0, without rounding: wpm < k, wpm > k
WpmBelow(seg, k) == Len(seg.tokens) * 60000 < k * SpanMs(seg)
WpmAbove(seg, k) == Len(seg.tokens) * 60000 > k * SpanMs(seg)

\* C18: a speech segment carries at most one pace tag; for a segment of
\* positive duration it is 'slow' (medium) iff wpm < 110, 'very_fast' (high)
\* iff wpm > 200, 'fast' (medium) iff 160 < wpm <= 200, and there is none iff
\* 110 <= wpm <= 160; no segment carries a slow tag and a fast or very_fast tag.
C18_PaceBands ==
    Tagged =>
        \A g \in 1..Len(analyzedSegments) :
            LET seg  == analyzedSegments[g]
                pace == PaceTags(seg)
            IN  /\ Len(pace) <= 1
                /\ SpanMs(seg) > 0 =>
                       /\ WpmBelow(seg, 110)
                              <=> (Len(pace) = 1 /\ pace[1].kind = "slow"
                                                /\ pace[1].severity = "medium")
                       /\ WpmAbove(seg, 200)
                              <=> (Len(pace) = 1 /\ pace[1].kind = "very_fast"
                                                /\ pace[1].severity = "high")
                       /\ (WpmAbove(seg, 160) /\ ~WpmAbove(seg, 200))
                              <=> (Len(pace) = 1 /\ pace[1].kind = "fast"
                                                /\ pace[1].severity = "medium")
                       /\ (~WpmBelow(seg, 110) /\ ~WpmAbove(seg, 160))
                              <=> Len(pace) = 0

\* eleven words spoken in 6 seconds, exactly 110 wpm, without a pace tag
C18_Witness ==
    /\ Tagged
    /\ \E g \in 1..Len(analyzedSegments) :
           /\ Len(analyzedSegments[g].tokens) = 11
           /\ SpanMs(analyzedSegments[g]) = 6000
           /\ Len(PaceTags(analyzedSegments[g])) = 0

\* the number of filler tags on the tokens of a segment
FillerTagsOn(seg) ==
    SumSeq([j \in 1..Len(seg.tokens) |-> Len(TagsOfKind(seg.tokens[j].tags, "filler"))])

\* the number of hedging phrases detected in a segment: the start positions
\* named by the hedging tags of its tokens
PhrasesDetectedIn(seg) ==
    Cardinality({st \in 1..Len(seg.tokens) :
                    \E j \in 1..Len(seg.tokens) :
                        \E k \in 1..Len(seg.tokens[j].tags) :
                            /\ seg.tokens[j].tags[k].kind = "hedging"
                            /\ seg.tokens[j].tags[k].data.start = st})

\* C19: a segment carries one segment-level filler tag when its tokens carry
\* more than 2 filler tags, of severity high when they carry more than 4 and
\* medium otherwise, and none when they carry 2 or fewer; it carries one
\* segment-level hedging tag when more than 1 hedging phrase was detected in
\* it, and none otherwise.
C19_AggregateSegmentTags ==
    Tagged =>
        \A g \in 1..Len(analyzedSegments) :
            LET seg     == analyzedSegments[g]
                fillers == TagsOfKind(seg.tags, "filler")
                hedges  == TagsOfKind(seg.tags, "hedging")
            IN  /\ Len(fillers) = (IF FillerTagsOn(seg) > 2 THEN 1 ELSE 0)
                /\ \A k \in 1..Len(fillers) :
                       fillers[k].severity =
                           (IF FillerTagsOn(seg) > 4 THEN "high" ELSE "medium")
                /\ Len(hedges) = (IF PhrasesDetectedIn(seg) > 1 THEN 1 ELSE 0)

\* a segment with 3 filler tags and 2 detected phrases that carries both
\* aggregate tags
C19_Witness ==
    /\ Tagged
    /\ \E g \in 1..Len(analyzedSegments) :
           /\ FillerTagsOn(analyzedSegments[g]) = 3
           /\ PhrasesDetectedIn(analyzedSegments[g]) = 2
           /\ Len(TagsOfKind(analyzedSegments[g].tags, "filler")) = 1
           /\ Len(TagsOfKind(analyzedSegments[g].tags, "hedging")) = 1

-----------------------------------------------------------------------------
(* Properties of the pause segments *)

\* C32: every pause segment of the result has no tokens and no text, does not
\* end before it starts, and carries exactly one tag, of kind pause, with the
\* length of the pause as data and severity medium when the pause is longer
\* than 4000 ms and low otherwise.
C32_PauseSegmentShape ==
    Assembled =>
        \A k \in 1..Len(allSegments) :
            allSegments[k].kind = "pause" =>
                LET seg == allSegments[k]
                IN  /\ seg.tokens = <<>>
                    /\ seg.text = <<>>
                    /\ seg.startMs <= seg.endMs
                    /\ Len(seg.tags) = 1
                    /\ seg.tags[1].kind = "pause"
                    /\ seg.tags[1].data = seg.endMs - seg.startMs
                    /\ seg.tags[1].severity =
                           (IF seg.endMs - seg.startMs > 4000 THEN "medium" ELSE "low")

\* a result with a pause of 4000 ms, rated low, and one of 4001 ms, rated medium
C32_Witness ==
    /\ Assembled
    /\ \E k \in 1..Len(allSegments) :
           /\ allSegments[k].kind = "pause"
           /\ allSegments[k].endMs - allSegments[k].startMs = 4000
           /\ allSegments[k].tags[1].severity = "low"
    /\ \E k \in 1..Len(allSegments) :
           /\ allSegments[k].kind = "pause"
           /\ allSegments[k].endMs - allSegments[k].startMs = 4001
           /\ allSegments[k].tags[1].severity = "medium"

-----------------------------------------------------------------------------
(* Properties of the Metrics Calculator *)

\* the speech segments of the result
Speech == SpeechOnly(allSegments)

\* the sum of the spans of the speech segments, and the wall-clock span
SpeakingMs == SumSeq([k \in 1..Len(Speech) |-> Speech[k].endMs - Speech[k].startMs])
WallClockMs == Speech[Len(Speech)].endMs - Speech[1].startMs

\* the tokens of the speech segments, and the filler tags on them
WordsOfResult == SumSeq([k \in 1..Len(Speech) |-> Len(Speech[k].tokens)])
TokenFillerTags == SumSeq([k \in 1..Len(Speech) |-> FillerTagsOn(Speech[k])])

Abs(x) == IF x < 0 THEN 0 - x ELSE x

\* value is num / den rounded to the nearest integer
IsRounded(value, num, den) == 2 * Abs(value * den - num) <= den

\* C21: metrics.fillerCount is the number of filler tags on the tokens of
\* the speech segments of the result; the aggregate filler tags of the
\* segments are not counted.
C21_FillerCountIsTokenTagCount ==
    Assembled => metrics.fillerCount = TokenFillerTags

\* a result with a segment that carries the aggregate filler tag
C21_Witness ==
    /\ Assembled
    /\ metrics.fillerCount >= 3
    /\ \E k \in 1..Len(Speech) : Len(TagsOfKind(Speech[k].tags, "filler")) = 1

\* C22: avgWpm is totalWords * 60000 over the sum of the spans of the speech
\* segments, rounded; durationSec and fillerPerMinute are taken over the span
\* from the first speech segment's start to the last one's end; the sum of
\* the spans is never larger than that span.
C22_TwoDenominators ==
    Assembled =>
        /\ SpeakingMs > 0 => IsRounded(metrics.avgWpm, WordsOfResult * 60000, SpeakingMs)
        /\ WallClockMs > 0 =>
               IsRounded(metrics.fillerPerMinuteTenths, metrics.fillerCount * 600000,
                         WallClockMs)
        /\ IsRounded(metrics.durationSec, WallClockMs, 1000)
        /\ SpeakingMs <= WallClockMs

\* a result with a pause, in which the two denominators differ and give
\* different values
C22_Witness ==
    /\ Assembled
    /\ Len(PauseOnly(allSegments)) >= 1
    /\ 0 < SpeakingMs /\ SpeakingMs < WallClockMs
    /\ metrics.fillerCount > 0
    /\ ~IsRounded(metrics.avgWpm, WordsOfResult * 60000, WallClockMs)
    /\ ~IsRounded(metrics.fillerPerMinuteTenths, metrics.fillerCount * 600000, SpeakingMs)

\* the wpm shown by the pace tag of a segment
ShownWpm(seg) == PaceTags(seg)[1].data

\* C23: a zero sum of spans gives avgWpm 0, a zero wall-clock span gives
\* fillerPerMinute 0, a zero-span segment has wpm 0; no value of the metrics
\* is negative or undefined and stressSpeedIndex stays within 0..1; the run
\* reaches the metrics whatever the durations.
C23_ZeroDurationGivesZero ==
    Assembled =>
        /\ SpeakingMs = 0 => metrics.avgWpm = 0
        /\ WallClockMs = 0 => (metrics.fillerPerMinuteTenths = 0 /\ metrics.durationSec = 0)
        /\ \A k \in 1..Len(Speech) :
               SpanMs(Speech[k]) = 0 =>
                   (Len(PaceTags(Speech[k])) = 1 /\ ShownWpm(Speech[k]) = 0)
        /\ metrics.avgWpm >= 0
        /\ metrics.fillerPerMinuteTenths >= 0
        /\ metrics.stressSpeedHundredths >= 0 /\ metrics.stressSpeedHundredths <= 100

\* a result of zero-duration words only, two of them apart by a pause: the
\* speaking time is zero, the wall-clock time is not
C23_Witness ==
    /\ Assembled
    /\ SpeakingMs = 0
    /\ WallClockMs > 0
    /\ metrics.fillerCount > 0
    /\ metrics.avgWpm = 0

\* the input of the worked example: (text, start_ms, end_ms) of each token
ExampleInput ==
    << <<<<"o","k">>, 0, 200>>,
       <<<<"u","m">>, 2500, 2900>>,
       <<<<"g","r","e","a","t">>, 2900, 3100>> >>

IsExampleInput ==
    /\ Len(tokens) = 3
    /\ \A i \in 1..3 :
           /\ tokens[i].text = ExampleInput[i][1]
           /\ tokens[i].start_ms = ExampleInput[i][2]
           /\ tokens[i].end_ms = ExampleInput[i][3]

\* the ids of the tokens of a token list
Ids(toks) == [j \in 1..Len(toks) |-> toks[j].id]

\* C24: for ('ok', 0-200), ('um', 2500-2900), ('great', 2900-3100) there are
\* two speech blocks, 'ok' alone and 'um' with 'great', one pause from 200 to
\* 2500 of 2300 ms between them, a filler tag on 'um' and on no other token,
\* and fillerCount = 1.
C24_WorkedExample ==
    (Assembled /\ IsExampleInput) =>
        /\ Len(pauseBlocks) = 2
        /\ Ids(pauseBlocks[1]) = <<1>>
        /\ Ids(pauseBlocks[2]) = <<2, 3>>
        /\ pauses = << [start |-> 200, end |-> 2500, durationMs |-> 2300] >>
        /\ Len(allSegments) = 3
        /\ allSegments[1].kind = "speech" /\ Ids(allSegments[1].tokens) = <<1>>
        /\ allSegments[2].kind = "pause"
        /\ allSegments[2].startMs = 200 /\ allSegments[2].endMs = 2500
        /\ allSegments[3].kind = "speech" /\ Ids(allSegments[3].tokens) = <<2, 3>>
        /\ Len(TagsOfKind(allSegments[1].tokens[1].tags, "filler")) = 0
        /\ Len(TagsOfKind(allSegments[3].tokens[1].tags, "filler")) = 1
        /\ Len(TagsOfKind(allSegments[3].tokens[2].tags, "filler")) = 0
        /\ metrics.fillerCount = 1

\* the result of the run on the worked example
C24_Witness ==
    /\ Assembled
    /\ IsExampleInput
    /\ metrics.totalWords = 3

-----------------------------------------------------------------------------
(* Properties of the token fetch *)

\* the run answered with the error of the token fetch
InputError == response.error = "No tokens found"

\* nothing of the pipeline, the enrichment or the sink has happened
NothingDone ==
    /\ punctuatedTokens = <<>>
    /\ pauseBlocks = <<>>
    /\ contentSegmentsPerBlock = <<>>
    /\ allSegments = <<>>
    /\ \A d \in Derivations : calls[d].state = "idle"
    /\ storage.timing = "absent"
    /\ uploads = <<>>
    /\ convStatus # "finished"

\* C27: a run that finds no token, or whose token fetch fails, answers with
\* an error; it has not segmented, not called the model, not written to the
\* sink and not set the status to finished.
C27_InputErrorFailsRun ==
    /\ (pc # "recording" /\ Len(tokens) = 0) => (pc = "failed" /\ InputError)
    /\ InputError => (pc = "failed" /\ response.status = 500 /\ NothingDone)

\* the run on an empty token table has answered
C27_Witness ==
    /\ Len(tokens) = 0
    /\ pc = "failed"
    /\ response.status = 500

-----------------------------------------------------------------------------


\* C26: every run ends, with an answer to the caller, even when a model call
\* is never answered.
C26_RunTerminates == <>(pc \in {"done", "failed"})


\* C30: once the status of the conversation is 'finished', no request changes
\* it to 'recording' or 'processing'.
C30_FinishedIsTerminal ==
    [][convStatus = "finished" => convStatus' \notin {"recording", "processing"}]_vars

(***************************************************************************)
(* Properties of the result sink                                           *)
(***************************************************************************)
\* some write of the AnalysisResult to the sink was refused
SinkWriteFailed == \E k \in 1..Len(uploads) : uploads[k] = "error"

\* C28: once a write to the sink has failed the run answers with an error and
\* the status is not advanced; success is never reported after a failed write.
C28_SinkFailureIsFatal ==
    SinkWriteFailed =>
        /\ response.status # 200
        /\ convStatus # "finished"
        /\ pc # "done"

CallSucceeded(d) ==
    /\ calls[d].state = "fulfilled"
    /\ calls[d].outcome \notin CallFailures \cup {"none", "no_call"}

\* the run answered 500 because an enrichment call threw
FailedOnEnrichment == response.status = 500 /\ response.error \in CallFailures

\* C1 (as claimed): when the model call of one derivation fails and the other
\* two succeed, the join is fulfilled, the AnalysisResult is assembled with
\* title, issues and highlights, and the run does not answer with an error
\* caused by the enrichment.
C1_SingleFailureTolerated ==
    \A d \in Derivations :
        (/\ calls[d].outcome \in CallFailures
         /\ \A e \in Derivations \ {d} : CallSucceeded(e))
            => (joined = "fulfilled" /\ ~FailedOnEnrichment)

\* C34: every id in the segmentIds of every issue of the result is the id of
\* a speech segment of the result's segments list, whatever indices the
\* model returned.
C34_IssueSegmentIdsExist ==
    \A k \in 1..Len(analysis.issues) :
        \A j \in 1..Len(analysis.issues[k].segmentIds) :
            \E g \in 1..Len(analysis.segments) :
                /\ analysis.segments[g].kind = "speech"
                /\ analysis.segments[g].id = analysis.issues[k].segmentIds[j]

\* the run triggered by the client has answered with success
TriggeredRunSucceeded == client.triggered /\ response.status = 200

\* C36: the run the client triggers when it stops its conversation reads the
\* tokens of that conversation and writes its result under that id, whatever
\* other clients upload meanwhile.
C36_RunAnalysesOwnConversation ==
    TriggeredRunSucceeded =>
        /\ storage.key = client.conversationIdRef
        /\ \A k \in 1..Len(punctuatedTokens) :
               punctuatedTokens[k].conversation_id = client.conversationIdRef

\* C37: whenever the status of the conversation is 'finished', a result for
\* it has been written to the sink.
C37_FinishedHasStoredResult ==
    convStatus = "finished" =>
        /\ storage.timing # "absent"
        /\ storage.key = client.conversationIdRef

\* C39: after startRecording failed, the conversation is not left in status
\* 'recording' and no analysis run is triggered for it.
C39_FailedStartLeavesNothingBehind ==
    client.startFailed =>
        /\ ~client.triggered
        /\ client.pc = "start_failed" => convStatus # "recording"

\* C38: the token slices of the content split of a block are pairwise
\* disjoint, in increasing index order, and together hold every token of the
\* block exactly once: joined in order they are the block.
C38_SlicesPartitionBlock ==
    pc = "backend_split" => Flatten(contentSegmentsPerBlock[1]) = pauseBlocks[1]

\* C35: computing the highlights leaves the issues list as the issues
\* derivation produced it: once the issues are there, no step changes them.
C35_HighlightsLeaveIssuesAlone ==
    [][calls["issues"].state = "fulfilled" =>
           calls'["issues"].value = calls["issues"].value]_vars

\* the highlights derivation has settled with the local fallback
HighlightsFellBack ==
    /\ calls["highlights"].state = "fulfilled"
    /\ calls["highlights"].outcome \in CallFailures \cup {"unparseable", "no_highlights"}

PaceTitles == {"Good speaking pace", "Slow down your pace", "Speed up your pace"}
FillerTitles == {"Minimal filler words", "Reduce filler words"}

\* C33: the fallback highlights are never empty and follow from the metrics
\* alone: one pace highlight, a strength for 110 <= avgWpm <= 160 and else an
\* improvement (high above 200, medium above 160, low below 110), then a
\* filler strength below 2 fillers per minute, a filler improvement above 3
\* (high above 5, else medium), and no filler highlight from 2 to 3.
C33_FallbackHighlightsFromMetrics ==
    HighlightsFellBack =>
        LET v      == calls["highlights"].value
            wpm    == metrics.avgWpm
            fpm    == metrics.fillerPerMinuteTenths
            pace   == SelectSeq(v, LAMBDA h : h.title \in PaceTitles)
            filler == SelectSeq(v, LAMBDA h : h.title \in FillerTitles)
        IN  /\ Len(v) >= 1
            /\ Len(pace) = 1
            /\ Len(v) = Len(pace) + Len(filler)
            /\ pace[1].type = "strength" <=> (wpm >= 110 /\ wpm <= 160)
            /\ pace[1].type # "strength" =>
                   /\ pace[1].type = "improvement"
                   /\ pace[1].severity =
                          (IF wpm > 200 THEN "high" ELSE IF wpm > 160 THEN "medium" ELSE "low")
            /\ Len(filler) = (IF fpm < 20 \/ fpm > 30 THEN 1 ELSE 0)
            /\ \A k \in 1..Len(filler) :
                   IF fpm < 20
                   THEN filler[k].type = "strength"
                   ELSE /\ filler[k].type = "improvement"
                        /\ filler[k].severity = (IF fpm > 50 THEN "high" ELSE "medium")

\* the fallback was used at an average of exactly 110 wpm
C33_Witness ==
    /\ HighlightsFellBack
    /\ metrics.avgWpm = 110
    /\ Len(calls["highlights"].value) = 2

\* the highlights that can be derived from the metrics alone
HighlightsWithoutIssues ==
    { generateFallbackHighlights(metrics, <<>>) }
        \cup { HighlightsFromContent(c, metrics, <<>>) : c \in HighlightsContents }

\* C25: the three derivations are started in one step, before any of them
\* has been answered; the highlights are derived without the issues of the
\* run; the AnalysisResult is assembled, and the sink written, only when all
\* three are fulfilled.
C25_DispatchedTogetherJoined ==
    [][/\ (\E d \in Derivations : calls[d].state = "idle" /\ calls'[d].state # "idle")
           => \A e \in Derivations :
                  /\ calls[e].state = "idle"
                  /\ calls[e].outcome = "none"
                  /\ calls'[e].state # "idle"
       /\ calls'["highlights"].state = "fulfilled"
           => calls'["highlights"].value \in HighlightsWithoutIssues
       /\ (analysis' # analysis \/ uploads' # uploads \/ storage' # storage)
           => \A d \in Derivations : calls'[d].state = "fulfilled"]_vars

\* a run that wrote its result after the issues had been answered first, with
\* a non-empty list, and the highlights call had failed
C25_Witness ==
    /\ pc = "uploaded"
    /\ Len(calls["issues"].value) > 0
    /\ calls["highlights"].outcome \in CallFailures
    /\ CallSucceeded("title")

\* the metrics for which the claimed fallback issues list is not empty
FallbackIssuesExpected ==
    \/ metrics.fillerPerMinuteTenths > 30
    \/ metrics.avgWpm < 110
    \/ metrics.avgWpm > 160

\* C2 (as claimed): when the issues call failed or its answer could not be
\* parsed, and the other two promises are settled, the AnalysisResult is
\* assembled and its issues list is not empty whenever fillerPerMinute > 3 or
\* avgWpm is outside 110..160.
C2_IssuesFallbackNonEmpty ==
    (/\ calls["issues"].outcome \in CallFailures \cup {"prose", "broken_array"}
     /\ \A e \in Derivations : calls[e].state # "pending"
     /\ FallbackIssuesExpected)
        => (joined = "fulfilled" /\ Len(analysis.issues) > 0)

====
